---------------------------- MODULE Spec2Model ----------------------------
(***************************************************************************)
(* Verification model of the conduit homeserver core: the federation       *)
(* ingress handler (src/server_server.rs), the event store it appends to,  *)
(* and the state-group resolution helpers (src/federation.rs,              *)
(* src/database/rooms/state.rs).                                           *)
(***************************************************************************)
EXTENDS Integers, Sequences, FiniteSets, TLC

\* ------------------------------------------------------------------ bounds
\* Total number of PDUs the inbound transactions of one behaviour carry.
MaxPdus == 3
\* Number of local join requests (join_room_by_id_route) in one behaviour.
MaxLocal == 1

\* ---------------------------------------------------------------- universe
AllHandlers == {1, 2}
Rooms == {"r1", "r2"}
Users == {"a", "b"}
\* state_key: None (a non-state event)
NoKey == "<none>"
\* Option<u64> / Option<EventId>: None
None == 0

\* Contents of the PDUs remote servers may send.  Everything the reference
\* hash covers is in here; the signatures are carried beside it.
Content ==
  << [room |-> "r1", sender |-> "b", kind |-> "m.room.member", state_key |-> "b",
      membership |-> "join", ts |-> 1000, prev_events |-> {101}],
     [room |-> "r1", sender |-> "b", kind |-> "m.room.message", state_key |-> NoKey,
      membership |-> "", ts |-> 1000, prev_events |-> {1}],
     [room |-> "r1", sender |-> "b", kind |-> "m.room.name", state_key |-> "",
      membership |-> "", ts |-> 1000, prev_events |-> {1}],
     [room |-> "r2", sender |-> "b", kind |-> "m.room.member", state_key |-> "b",
      membership |-> "join", ts |-> 1000, prev_events |-> {}],
     [room |-> "r1", sender |-> "b", kind |-> "m.room.member", state_key |-> "b",
      membership |-> "leave", ts |-> 1002, prev_events |-> {1}] >>

Bodies == 1 .. Len(Content)
\* Bodies that are also sent with a signature that does not verify.
BadSigBodies == {2, 3}

\* A PDU on the wire: its content and whether its signatures verify.
WirePdu(b, ok) == [content |-> Content[b], sig_ok |-> ok]
WirePdus ==
  { WirePdu(b, TRUE) : b \in Bodies } \cup { WirePdu(b, FALSE) : b \in BadSigBodies }

\* Event ID of the n-th locally created event.
LocalId(n) == 100 + n

\* ----------------------------------------------------------------- helpers
Max(S) == CHOOSE x \in S : \A y \in S : y <= x
Min(S) == CHOOSE x \in S : \A y \in S : x <= y
Range(f) == { f[x] : x \in DOMAIN f }
EmptyMap == [x \in {} |-> None]
\* BTreeMap::insert
MapInsert(m, k, v) == [x \in (DOMAIN m) \cup {k} |-> IF x = k THEN v ELSE m[x]]

\* serde_json::to_value(pdu.json().get()): the argument is the &str holding
\* the JSON text of the PDU, and a str serializes to a JSON string.  The value
\* is Value::String(text), not the object the text spells.
to_value(text) == [json |-> "string", text |-> text]

\* Value::is_object / Value::as_object_mut().is_some()
is_object(value) == value.json = "object"

\* ruma::signatures::reference_hash(value, version): Err for a value that is
\* no JSON object; for an object, a hash of its content, the signatures left
\* out, injective on the universe.
reference_hash(value, version) ==
  IF is_object(value)
  THEN [ok |-> TRUE, hash |-> CHOOSE b \in Bodies : Content[b] = value.fields.content]
  ELSE [ok |-> FALSE, hash |-> None]

\* process_incoming_pdu: derives the event ID and injects it into the value.
\* reference_hash(..).expect(..) panics on an Err, and so does
\* value.as_object_mut().expect(..) on a value that is no object.
process_incoming_pdu(pdu, version) ==
  LET value == to_value(pdu)
      hash == reference_hash(value, version)
  IN  IF ~hash.ok THEN [status |-> "panic"]
      ELSE IF ~is_object(value) THEN [status |-> "panic"]
      ELSE [status |-> "ok", event_id |-> hash.hash,
            value |-> [value EXCEPT !.fields = MapInsert(@, "event_id", hash.hash)]]

\* A PduEvent as Rooms::append_pdu takes it: the event of body b under its
\* event ID, the reference hash of the body.
PduEvent(b, ok) ==
  [event_id |-> b,
   room_id |-> Content[b].room,
   sender |-> Content[b].sender,
   kind |-> Content[b].kind,
   state_key |-> Content[b].state_key,
   membership |-> Content[b].membership,
   prev_events |-> Content[b].prev_events,
   sig_ok |-> ok]

PduEvents ==
  { PduEvent(b, TRUE) : b \in Bodies } \cup { PduEvent(b, FALSE) : b \in BadSigBodies }

is_state(value) == value.state_key # NoKey
Slot(value) == <<value.kind, value.state_key>>

\* ------------------------------------------------------------- event store
\* The tables of the room store, as one value.  pdu_by_id: event_id -> PDU;
\* seq_by_id: event_id -> per-room sequence number (events of the forward
\* DAG only); roomid_pduleaves: room -> extremities; roomstateid_pdu:
\* room -> (event_type, state_key) -> event_id; userroomid_joined: the
\* (user, room) pairs joined; room_counter: room -> last sequence number.
EmptyDb ==
  [pdu_by_id |-> EmptyMap,
   seq_by_id |-> EmptyMap,
   roomid_pduleaves |-> [r \in Rooms |-> {}],
   roomstateid_pdu |-> [r \in Rooms |-> EmptyMap],
   userroomid_joined |-> {},
   room_counter |-> [r \in Rooms |-> 0]]

\* Rooms::is_joined
is_joined(db, user, room) == <<user, room>> \in db.userroomid_joined

\* Rooms::exists: the room has an event in its sequence.
exists(db, room) == db.room_counter[room] > 0

\* Rooms::room_state_full, reduced to the event IDs the handler reads.
room_state_full(db, room) == db.roomstateid_pdu[room]

\* Events stored but not part of the forward DAG.
Outliers(db) == (DOMAIN db.pdu_by_id) \ (DOMAIN db.seq_by_id)

\* Membership index refresh for an appended m.room.member event.
update_membership(db, pdu) ==
  IF pdu.kind = "m.room.member"
  THEN IF pdu.membership = "join"
       THEN db.userroomid_joined \cup {<<pdu.state_key, pdu.room_id>>}
       ELSE db.userroomid_joined \ {<<pdu.state_key, pdu.room_id>>}
  ELSE db.userroomid_joined

\* Mutant: the parents stay in the extremity set.
update_leaves_keeps_parents(leaves, pdu) == leaves \cup {pdu.event_id}

\* The extremity update of append: every parent leaves the set, the new
\* event enters it.
update_leaves(leaves, pdu) == (leaves \ pdu.prev_events) \cup {pdu.event_id}

\* Steps 3 to 6 of append for a stored PDU whose parents are all in the DAG.
integrate(db, pdu) ==
  LET r == pdu.room_id
      seq == db.room_counter[r] + 1
  IN  [db EXCEPT
         !.room_counter[r] = seq,
         !.seq_by_id = MapInsert(db.seq_by_id, pdu.event_id, seq),
         !.roomid_pduleaves[r] = update_leaves(db.roomid_pduleaves[r], pdu),
         !.roomstateid_pdu[r] =
            IF is_state(pdu) THEN MapInsert(db.roomstateid_pdu[r], Slot(pdu), pdu.event_id)
            ELSE db.roomstateid_pdu[r],
         !.userroomid_joined =
            IF is_state(pdu) THEN update_membership(db, pdu)
            ELSE db.userroomid_joined]

\* Outliers whose parents have all arrived are promoted into the DAG.
RECURSIVE promote(_)
promote(db) ==
  LET ready == { id \in Outliers(db) :
                   db.pdu_by_id[id].prev_events \subseteq DOMAIN db.seq_by_id }
  IN  IF ready = {} THEN db
      ELSE promote(integrate(db, db.pdu_by_id[Min(ready)]))

\* Mutant: append never notices that the PDU is stored already.
already_stored_unnoticed(db, pdu) == FALSE

\* A PDU already stored is not written again.
already_stored(db, pdu) == pdu.event_id \in DOMAIN db.pdu_by_id

\* Rooms::append_pdu.  Returns [ok, db].
append_pdu(db, pdu) ==
  IF ~pdu.sig_ok THEN [ok |-> FALSE, db |-> db]
  ELSE IF already_stored(db, pdu) THEN [ok |-> TRUE, db |-> db]
  ELSE LET stored == [db EXCEPT !.pdu_by_id = MapInsert(db.pdu_by_id, pdu.event_id, pdu)]
       IN  IF pdu.prev_events \subseteq DOMAIN db.seq_by_id
           THEN [ok |-> TRUE, db |-> promote(integrate(stored, pdu))]
           ELSE [ok |-> TRUE, db |-> stored]

\* ------------------------------------------------------------ state groups
\* StateId of the groups the state tables may hold.
GroupIds == {1, 2, 3}
\* Largest number of prev events handed to resolve_state_group_for_events.
MaxPrev == 2
\* Cap on the state-group counter, to keep the model finite.
MaxStateId == 2

\* The three parallel tables eventnumid_eventtype, eventnumid_statekey and
\* eventnumid_eventid: row n is the state event with numeric ID n.
NumIdTable ==
  << [type |-> "m.room.create", key |-> "", eid |-> 201],
     [type |-> "m.room.member", key |-> "a", eid |-> 202],
     [type |-> "m.room.name", key |-> "", eid |-> 203],
     [type |-> "m.room.name", key |-> "", eid |-> 204] >>
NumIds == 1 .. Len(NumIdTable)

\* The values stategroupid_eventnumidrange may hold: (from, to) numeric IDs.
Ranges == { <<1, 1>>, <<1, 3>>, <<1, 4>>, <<3, 4>>, <<4, 5>> }

\* roomideventid_eventnumid for the prev events "p1".."p4" of one room; "p0"
\* has no entry.  The value is used as the key into
\* stategroupid_eventnumidrange.
PrevEvents == {"p0", "p1", "p2", "p3", "p4"}
EventGroup == [p1 |-> 1, p2 |-> 2, p3 |-> 3, p4 |-> 1]

\* The strings gen_state_id (utils::random_string) may return.
RandomStrings == {"x", "y"}

\* Ascending iteration of a set of integers (BTreeMap / sled::Tree order).
RECURSIVE SortedSeq(_)
SortedSeq(S) == IF S = {} THEN << >> ELSE <<Min(S)>> \o SortedSeq(S \ {Min(S)})

\* BTreeMap<StateId, _>::iter: the keys in ascending order.
BTreeKeys(m) == SortedSeq(DOMAIN m)

\* Option<StateMap<EventId>>
NoMap == [some |-> FALSE, map |-> EmptyMap]
SomeMap(m) == [some |-> TRUE, map |-> m]

\* StateGroupId
Group(id) == [kind |-> "Group", id |-> id, name |-> ""]
Cached(name) == [kind |-> "Cached", id |-> None, name |-> name]

\* gen_state_id: a random string.
gen_state_id(rnd) == rnd

\* StateCacheEntry::new
StateCacheEntry_new(state, state_group, prev_group, delta_ids, rnd) ==
  [state |-> state,
   state_id |-> IF state_group # None THEN Group(state_group)
                ELSE Cached(gen_state_id(rnd)),
   state_group |-> state_group,
   prev_group |-> prev_group,
   delta_ids |-> delta_ids]

\* The (slot, event_id) pairs of a state map: new_state.iter().collect::<BTreeSet<_>>()
Pairs(m) == { <<k, m[k]>> : k \in DOMAIN m }

\* Mutant: the first loop compares the number of entries only.
RECURSIVE first_equal_group_by_len(_, _, _)
first_equal_group_by_len(new_state, state_groups, keys) ==
  IF keys = << >> THEN None
  ELSE IF Cardinality(Pairs(new_state)) = Cardinality(DOMAIN state_groups[Head(keys)])
       THEN Head(keys)
       ELSE first_equal_group_by_len(new_state, state_groups, Tail(keys))

\* The first loop of make_state_cache: the first input group whose state
\* equals the new state, or None.
RECURSIVE first_equal_group(_, _, _)
first_equal_group(new_state, state_groups, keys) ==
  IF keys = << >> THEN None
  ELSE LET sg == Head(keys)
           state == state_groups[sg]
       IN  IF Cardinality(Pairs(new_state)) # Cardinality(DOMAIN state)
           THEN first_equal_group(new_state, state_groups, Tail(keys))
           ELSE IF Pairs(new_state) = Pairs(state) THEN sg
           ELSE first_equal_group(new_state, state_groups, Tail(keys))

\* Mutant: n_delta holds only the slots old_state lacks, not the slots whose
\* event changed.
n_delta_new_slots_only(new_state, old_state) ==
  [k \in DOMAIN new_state \ DOMAIN old_state |-> new_state[k]]

\* n_delta of the second loop: the entries of new_state that old_state does
\* not hold with the same value.
n_delta(new_state, old_state) ==
  LET ks == { k \in DOMAIN new_state :
                ~(k \in DOMAIN old_state /\ old_state[k] = new_state[k]) }
  IN  [k \in ks |-> new_state[k]]

\* The second loop of make_state_cache, from the accumulator
\* acc = [prev_group, delta_ids, delta_len].
RECURSIVE pick_prev_group(_, _, _, _)
pick_prev_group(new_state, state_groups, keys, acc) ==
  IF keys = << >> THEN acc
  ELSE LET old_group == Head(keys)
           nd == n_delta(new_state, state_groups[old_group])
           len == Cardinality(DOMAIN nd)
       IN  pick_prev_group(new_state, state_groups, Tail(keys),
             IF len > acc.delta_len
             THEN [prev_group |-> old_group, delta_ids |-> SomeMap(nd), delta_len |-> len]
             ELSE acc)

\* make_state_cache
make_state_cache(new_state, state_groups, rnd) ==
  LET sg == first_equal_group(new_state, state_groups, BTreeKeys(state_groups))
      acc == pick_prev_group(new_state, state_groups, BTreeKeys(state_groups),
                             [prev_group |-> None, delta_ids |-> NoMap, delta_len |-> 0])
  IN  IF sg # None
      THEN StateCacheEntry_new(new_state, sg, None, NoMap, rnd)
      ELSE StateCacheEntry_new(new_state, None, acc.prev_group, acc.delta_ids, rnd)

\* The order BTreeMap<(EventType, Option<String>), _> visits the slots in.
SlotOrder ==
  << <<"m.room.create", "">>, <<"m.room.member", "a">>, <<"m.room.name", "">> >>
SlotsOf(m) == SelectSeq(SlotOrder, LAMBDA k : k \in DOMAIN m)

\* The inner loop of resolve_state_groups over one group's slots, from the
\* accumulator acc = [new_state, conflicted].
RECURSIVE merge_group(_, _, _)
merge_group(st, slots, acc) ==
  IF slots = << >> THEN acc
  ELSE LET k == Head(slots)
       IN  IF k \in DOMAIN acc.new_state
           THEN [acc EXCEPT !.conflicted = TRUE]
           ELSE merge_group(st, Tail(slots),
                            [acc EXCEPT !.new_state = MapInsert(@, k, st[k])])

\* The outer loop of resolve_state_groups.
RECURSIVE merge_groups(_, _, _)
merge_groups(state_groups, keys, acc) ==
  IF keys = << >> THEN acc
  ELSE LET next == merge_group(state_groups[Head(keys)],
                               SlotsOf(state_groups[Head(keys)]), acc)
       IN  IF next.conflicted THEN next
           ELSE merge_groups(state_groups, Tail(keys), next)

\* What a call returns: a cache entry, or the call panics.
NoEntryValue == StateCacheEntry_new(EmptyMap, None, None, NoMap, "")
Returned(entry) == [status |-> "ok", entry |-> entry]
Panicked == [status |-> "panic", entry |-> NoEntryValue]
NotRun == [status |-> "none", entry |-> NoEntryValue]

\* resolve_events_with_db: `let room_version = todo!()` panics before the
\* resolver runs.
resolve_events_with_db(state_set) == Panicked

\* resolve_state_groups
resolve_state_groups(state_groups, rnd) ==
  LET merged == merge_groups(state_groups, BTreeKeys(state_groups),
                             [new_state |-> EmptyMap, conflicted |-> FALSE])
  IN  IF merged.conflicted
      THEN resolve_events_with_db(Range(state_groups))
      ELSE Returned(make_state_cache(merged.new_state, state_groups, rnd))

\* ------------------------------------------------------ RoomState (db.state)
\* size_of::<u64>(): the bytes of a numeric ID or of a state-group ID.
U64Bytes == 8

\* A stored range is two numeric IDs, back to back.
RangeBytes(range) == Len(range) * U64Bytes

\* utils::u64_from_bytes succeeds on exactly eight bytes.
u64_from_bytes_ok(nbytes) == nbytes = U64Bytes

eventnumid_eventtype == [n \in NumIds |-> NumIdTable[n].type]
eventnumid_statekey == [n \in NumIds |-> NumIdTable[n].key]
eventnumid_eventid == [n \in NumIds |-> NumIdTable[n].eid]

\* The tables of db.state that the calls below read, and its counter.
RoomStates ==
  { [stategroupid_eventnumidrange |-> t, current_state_id |-> 0] :
      t \in UNION { [G -> Ranges] : G \in SUBSET GroupIds } }

\* tree.range(from..to): the values under the keys from <= n < to, ascending.
tree_range(tree, from, to) ==
  LET keys == SortedSeq({ n \in DOMAIN tree : from <= n /\ n < to })
  IN  [i \in 1 .. Len(keys) |-> tree[keys[i]]]

\* collect::<StateMap<_>>() of the zipped rows: a later row replaces an
\* earlier one with the same slot.
RECURSIVE collect_rows(_, _, _, _, _)
collect_rows(types, keys, ids, i, acc) ==
  IF i > Min({Len(types), Len(keys), Len(ids)}) THEN acc
  ELSE collect_rows(types, keys, ids, i + 1,
                    MapInsert(acc, <<types[i], keys[i]>>, ids[i]))

\* RoomState::statemap_from_numid_range over the three trees given: each tree
\* is scanned on its own and the scans are zipped by position.
statemap_from_trees(types, keys, ids, range) ==
  collect_rows(tree_range(types, range[1], range[2]),
               tree_range(keys, range[1], range[2]),
               tree_range(ids, range[1], range[2]),
               1, EmptyMap)

\* RoomState::statemap_from_numid_range
statemap_from_numid_range(range) ==
  statemap_from_trees(eventnumid_eventtype, eventnumid_statekey, eventnumid_eventid, range)

\* RoomState::get_state_group_ids: the loop over event_ids from position i.
RECURSIVE get_state_group_ids_from(_, _, _, _)
get_state_group_ids_from(rs, event_ids, i, state_groups) ==
  IF i > Len(event_ids) THEN state_groups
  ELSE LET id == event_ids[i]
           found == id \in DOMAIN EventGroup
                    /\ EventGroup[id] \in DOMAIN rs.stategroupid_eventnumidrange
       IN  get_state_group_ids_from(rs, event_ids, i + 1,
             IF found
             THEN MapInsert(state_groups, EventGroup[id],
                    statemap_from_numid_range(rs.stategroupid_eventnumidrange[EventGroup[id]]))
             ELSE state_groups)

\* Mutant: only the first event is looked up.
get_state_group_ids_first_only(rs, event_ids) ==
  get_state_group_ids_from(rs, SubSeq(event_ids, 1, Min({1, Len(event_ids)})), 1, EmptyMap)

get_state_group_ids(rs, event_ids) ==
  get_state_group_ids_from(rs, event_ids, 1, EmptyMap)

\* RoomState::current_state_id: the last key of the group table.
current_state_id(rs) ==
  IF DOMAIN rs.stategroupid_eventnumidrange = {} THEN None
  ELSE Max(DOMAIN rs.stategroupid_eventnumidrange)

\* RoomState::current_state: the state map of the last group.
current_state(rs) ==
  IF DOMAIN rs.stategroupid_eventnumidrange = {} THEN EmptyMap
  ELSE statemap_from_numid_range(
         rs.stategroupid_eventnumidrange[Max(DOMAIN rs.stategroupid_eventnumidrange)])

\* RoomState::prev_state_id.  idx is the 0-based position of `current` among
\* the keys; `idx - 2` on usize panics in a build with overflow checks and
\* wraps otherwise (the skip then runs off the end).  The entry found is read
\* through its value, the 16-byte range, which u64_from_bytes rejects.
prev_state_id(rs, current, checks) ==
  LET keys == SortedSeq(DOMAIN rs.stategroupid_eventnumidrange)
      idx == (CHOOSE i \in 1 .. Len(keys) : keys[i] = current) - 1
  IN  IF current \notin DOMAIN rs.stategroupid_eventnumidrange
      THEN [status |-> "ok", value |-> None]
      ELSE IF idx < 2
      THEN IF checks THEN [status |-> "panic", value |-> None]
           ELSE [status |-> "ok", value |-> None]
      ELSE LET pair == rs.stategroupid_eventnumidrange[keys[idx - 2 + 1]]
           IN  IF u64_from_bytes_ok(RangeBytes(pair))
               THEN [status |-> "ok", value |-> pair[1]]
               ELSE [status |-> "ok", value |-> None]

\* Mutant: the counter is read but not advanced.
new_state_group_id_stale(rs) ==
  [value |-> rs.current_state_id, rs |-> rs]

\* RoomState::new_state_group_id: fetch_add returns the old value.
new_state_group_id(rs) ==
  [value |-> rs.current_state_id,
   rs |-> [rs EXCEPT !.current_state_id = @ + 1]]

\* get_statemap of a stored group: the state map its range materializes.
get_statemap(rs, id) ==
  IF id \in DOMAIN rs.stategroupid_eventnumidrange
  THEN statemap_from_numid_range(rs.stategroupid_eventnumidrange[id])
  ELSE EmptyMap

\* The symmetric difference of two state maps, collected back into a map.
symmetric_difference(m1, m2) ==
  LET diff == (Pairs(m1) \ Pairs(m2)) \cup (Pairs(m2) \ Pairs(m1))
      slots == { pr[1] : pr \in diff }
  IN  [k \in slots |-> Max({ pr[2] : pr \in { q \in diff : q[1] = k } })]

\* get_state_group_delta
get_state_group_delta(rs, state, state_id, checks) ==
  LET prev == prev_state_id(rs, state_id, checks)
  IN  IF prev.status = "panic"
      THEN [status |-> "panic", prev_group |-> None, delta_ids |-> NoMap]
      ELSE IF prev.value # None
      THEN [status |-> "ok", prev_group |-> prev.value,
            delta_ids |-> SomeMap(symmetric_difference(get_statemap(rs, prev.value), state))]
      ELSE [status |-> "ok", prev_group |-> None, delta_ids |-> NoMap]

\* Mutant: a single state group is not returned directly but goes through
\* the allocation and the merge like several groups.
resolve_state_group_for_events_no_shortcut(rs, prev_event_ids, rnd, checks) ==
  LET state_group_ids == get_state_group_ids(rs, prev_event_ids)
      alloc == new_state_group_id(rs)
      delta == get_state_group_delta(rs, current_state(rs), current_state_id(rs), checks)
  IN  IF DOMAIN state_group_ids = {}
      THEN [result |-> Returned(StateCacheEntry_new(EmptyMap, None, None, NoMap, rnd)),
            rs |-> rs]
      ELSE IF delta.status = "panic"
      THEN [result |-> Panicked, rs |-> alloc.rs]
      ELSE [result |-> resolve_state_groups(state_group_ids, rnd), rs |-> alloc.rs]

\* Mutant: the new state-group ID is allocated before the input is looked at.
resolve_state_group_for_events_allocates_first(rs, prev_event_ids, rnd, checks) ==
  LET state_group_ids == get_state_group_ids(rs, prev_event_ids)
      alloc == new_state_group_id(rs)
  IN  IF DOMAIN state_group_ids = {}
      THEN [result |-> Returned(StateCacheEntry_new(EmptyMap, None, None, NoMap, rnd)),
            rs |-> alloc.rs]
      ELSE [result |-> resolve_state_groups(state_group_ids, rnd), rs |-> alloc.rs]

\* resolve_state_group_for_events: what the call returns and the RoomState it
\* leaves behind.
resolve_state_group_for_events(rs, prev_event_ids, rnd, checks) ==
  LET state_group_ids == get_state_group_ids(rs, prev_event_ids)
      n == Cardinality(DOMAIN state_group_ids)
      name == CHOOSE k \in DOMAIN state_group_ids : TRUE
      alloc == new_state_group_id(rs)
      delta == get_state_group_delta(rs, current_state(rs), current_state_id(rs), checks)
  IN  IF n = 0
      THEN [result |-> Returned(StateCacheEntry_new(EmptyMap, None, None, NoMap, rnd)),
            rs |-> rs]
      ELSE IF n = 1
      THEN [result |-> Returned([state |-> state_group_ids[name],
                                 state_id |-> Group(name),
                                 state_group |-> name,
                                 prev_group |-> None,
                                 delta_ids |-> NoMap]),
            rs |-> rs]
      ELSE IF delta.status = "panic"
      THEN [result |-> Panicked, rs |-> alloc.rs]
      ELSE [result |-> resolve_state_groups(state_group_ids, rnd), rs |-> alloc.rs]

\* ------------------------------------------------------------------- state
VARIABLES
  db,                 \* the room store tables
  handlers,           \* the request handlers that run (fixed by Init)
  pc,                 \* handler -> "idle" | "loop" | "done"
  txn_len,            \* handler -> number of PDUs in body.pdus
  reached,            \* handler -> number of PDUs of body.pdus reached so far
  cur,                \* handler -> the PDU the loop is working on
  resolved_map,       \* handler -> event_id -> "Ok" or an error string
  outcome,            \* handler -> how the request ended
  last,               \* the last Rooms::append_pdu call and the store before it
  npdus,              \* number of PDUs announced by the transactions so far
  nlocal,             \* number of local events created so far
  room_state,         \* db.rooms.state: the state-group table and counter
  overflow_checks,    \* whether the build checks integer overflow
  call,               \* the resolution entry point exercised and its input
  out,                \* the last two results of that entry point
  issued,             \* IDs new_state_group_id returned since the process started
  issued_before,      \* IDs new_state_group_id returned before the last restart
  got,                \* thread -> the ID its last new_state_group_id call returned
  ctx,                \* the last compute_event_context call: input and result
  rd,                 \* the last read of the state tables: call and result
  disk,               \* the sled databases on disk and the process using them
  req,                \* the last send_request call: input, lookups and request built
  ad,                 \* the account data tree, the global counter, the last read
  ms,                 \* the last client route call on a room: input and result
  ev,                 \* the last create_new_client_event call: input and result
  gm,                 \* get_missing_events_route: the request and the loop's locals
  tr                  \* the trees of the room store and the last write to them

fvars == <<db, handlers, pc, txn_len, reached, cur, resolved_map,
           outcome, last, npdus, nlocal>>
svars == <<room_state, overflow_checks, call, out>>
cvars == <<issued, issued_before, got, ctx>>
xvars == <<rd, disk, req>>
yvars == <<ad, ms, ev, gm, tr>>
vars == <<fvars, svars, cvars, xvars, yvars>>

NoPdu == WirePdu(1, TRUE)

\* Rooms::append_pdu has not been called.
NoAppend == [called |-> FALSE, pdu |-> PduEvent(1, TRUE), stored_before |-> FALSE,
             ok |-> FALSE]

InitWith(hs) ==
  /\ db = EmptyDb
  /\ handlers = hs
  /\ pc = [h \in AllHandlers |-> "idle"]
  /\ txn_len = [h \in AllHandlers |-> 0]
  /\ reached = [h \in AllHandlers |-> 0]
  /\ cur = [h \in AllHandlers |-> NoPdu]
  /\ resolved_map = [h \in AllHandlers |-> EmptyMap]
  /\ outcome = [h \in AllHandlers |-> "none"]
  /\ last = NoAppend
  /\ npdus = 0
  /\ nlocal = 0

\* The threads that call new_state_group_id, and the value of `got` for a
\* thread that has not called it.
Threads == {1, 2}
NoId == -1

\* No thread has called new_state_group_id.
NoCounterCalls ==
  /\ issued = << >>
  /\ issued_before = {}
  /\ got = [t \in Threads |-> NoId]

\* compute_event_context has not been called.
NoContext == [status |-> "none"]
NoContextCall == ctx = NoContext

\* No read of the state tables has been made.
NoRead == [fn |-> "none"]

\* The tree roomstateid_pdu as it is on disk: state slot -> event.  `db` is
\* the database at `path`, `old` the one at `path + ".old"`; `status` is
\* "down" (no process), "up" or "failed" (load_or_create panicked); `starts`
\* counts the calls of load_or_create; `asserts` tells whether the sled build
\* at hand refuses to import over an existing key.
TreeKeys == {"name", "topic"}
TreeValues == {401, 402}
TreeContents == UNION { [K -> TreeValues] : K \in SUBSET TreeKeys }
NoDisk == [db |-> EmptyMap, old |-> EmptyMap, status |-> "down", starts |-> 0,
           asserts |-> FALSE]

\* No send_request call has been made.
NoRequest == [status |-> "none"]

\* The account data tree is empty and has not been read.
NoAccountData == [tree |-> EmptyMap, counter |-> 0, updates |-> 0, latest |-> EmptyMap,
                  read |-> [status |-> "none"]]

\* No client route has been called on a room.
NoRoute == [route |-> "none"]

\* create_new_client_event has not been called.
NoClientEvent == [status |-> "none"]

\* No get_missing_events request has been received.
NoMissing == [pc |-> "idle"]

\* The room store has not been opened.
NoTrees == [status |-> "closed"]

NoLateCalls ==
  ad = NoAccountData /\ ms = NoRoute /\ ev = NoClientEvent /\ gm = NoMissing /\ tr = NoTrees

\* None of the calls above has been made.
NoOtherCalls == rd = NoRead /\ disk = NoDisk /\ req = NoRequest /\ NoLateCalls

\* db.state before any state group is stored; no resolution call is made.
NoRoomState == [stategroupid_eventnumidrange |-> EmptyMap, current_state_id |-> 0]
NoCall == [fn |-> "none", events |-> {}, groups |-> {}]

Init ==
  /\ InitWith({1})
  /\ room_state = NoRoomState
  /\ overflow_checks = TRUE
  /\ call = NoCall
  /\ out = <<NotRun, NotRun>>
  /\ NoCounterCalls
  /\ NoContextCall
  /\ NoOtherCalls

\* ------------------------------------------- send_transaction_message_route
\* The room version the handler passes to process_incoming_pdu: the literal
\* RoomVersionId::Version6.
IdVersion == "6"

\* The version each room of the universe was created with.
RoomVersion == [r \in Rooms |-> IF r = "r1" THEN "6" ELSE "5"]

\* A request arrives; body.pdus holds n PDUs.  With no PDU the loop is not
\* entered and the empty result map is returned.
ReceiveTransaction(h, n) ==
  /\ pc[h] \in {"idle", "done"}
  /\ npdus + n <= MaxPdus
  /\ npdus' = npdus + n
  /\ pc' = [pc EXCEPT ![h] = IF n = 0 THEN "done" ELSE "loop"]
  /\ txn_len' = [txn_len EXCEPT ![h] = n]
  /\ reached' = [reached EXCEPT ![h] = 0]
  /\ cur' = [cur EXCEPT ![h] = NoPdu]
  /\ resolved_map' = [resolved_map EXCEPT ![h] = EmptyMap]
  /\ outcome' = [outcome EXCEPT ![h] = IF n = 0 THEN "response" ELSE "none"]
  /\ UNCHANGED <<db, handlers, last, nlocal>>
  /\ UNCHANGED <<svars, cvars, xvars, yvars>>

\* Mutant: the handler stores every PDU it is sent, unchecked.
ProcessPdu_stores_unchecked(h, p) ==
  /\ pc[h] = "loop"
  /\ reached[h] < txn_len[h]
  /\ reached' = [reached EXCEPT ![h] = @ + 1]
  /\ cur' = [cur EXCEPT ![h] = p]
  /\ LET pdu == [PduEvent(CHOOSE b \in Bodies : Content[b] = p.content, TRUE)
                   EXCEPT !.sig_ok = p.sig_ok]
     IN  db' = [db EXCEPT !.pdu_by_id = MapInsert(@, pdu.event_id, pdu)]
  /\ pc' = [pc EXCEPT ![h] = IF reached[h] + 1 = txn_len[h] THEN "done" ELSE "loop"]
  /\ outcome' = [outcome EXCEPT ![h] =
                   IF reached[h] + 1 = txn_len[h] THEN "response" ELSE "none"]
  /\ UNCHANGED <<handlers, txn_len, resolved_map, last, npdus, nlocal>>
  /\ UNCHANGED <<svars, cvars, xvars, yvars>>

\* One pass of the loop over body.pdus: the first statement is the call of
\* process_incoming_pdu, which panics, so the handler ends there.  The rest of
\* the loop body (the join check, the /state request, the resolution and the
\* appends) is never reached.
ProcessPdu(h, p) ==
  /\ pc[h] = "loop"
  /\ reached[h] < txn_len[h]
  /\ process_incoming_pdu(p, IdVersion).status = "panic"
  /\ reached' = [reached EXCEPT ![h] = @ + 1]
  /\ cur' = [cur EXCEPT ![h] = p]
  /\ pc' = [pc EXCEPT ![h] = "done"]
  /\ outcome' = [outcome EXCEPT ![h] = "panic"]
  /\ UNCHANGED <<db, handlers, txn_len, resolved_map, last, npdus, nlocal>>
  /\ UNCHANGED <<svars, cvars, xvars, yvars>>

\* ---------------------------------------------------- join_room_by_id_route
LocalUsers == {"a"}
LocalRooms == {"r1"}

\* The member event a local join builds: its parents are the room's leaves.
join_event(d, n, user, room) ==
  [event_id |-> LocalId(n), room_id |-> room, sender |-> user,
   kind |-> "m.room.member", state_key |-> user, membership |-> "join",
   prev_events |-> d.roomid_pduleaves[room], sig_ok |-> TRUE]

JoinRoom(user, room) ==
  /\ nlocal < MaxLocal
  /\ nlocal' = nlocal + 1
  /\ db' = append_pdu(db, join_event(db, nlocal + 1, user, room)).db
  /\ UNCHANGED <<handlers, pc, txn_len, reached, cur, resolved_map,
                 outcome, last, npdus>>
  /\ UNCHANGED <<svars, cvars, xvars, yvars>>

Next ==
  \/ \E h \in handlers, n \in 0 .. MaxPdus : ReceiveTransaction(h, n)
  \/ \E h \in handlers, p \in WirePdus : ProcessPdu(h, p)
  \/ \E user \in LocalUsers, room \in LocalRooms : JoinRoom(user, room)

Spec == Init /\ [][Next]_vars

\* ------------------------------------------------------- Rooms::append_pdu
\* A call of Rooms::append_pdu with a PDU of the universe.
AppendPdu(pdu) ==
  /\ last' = [called |-> TRUE, pdu |-> pdu, stored_before |-> already_stored(db, pdu),
              ok |-> append_pdu(db, pdu).ok]
  /\ db' = append_pdu(db, pdu).db
  /\ UNCHANGED <<handlers, pc, txn_len, reached, cur, resolved_map, outcome,
                 npdus, nlocal>>
  /\ UNCHANGED <<svars, cvars, xvars, yvars>>

NextAppend ==
  \/ \E pdu \in PduEvents : AppendPdu(pdu)
  \/ \E user \in LocalUsers, room \in LocalRooms : JoinRoom(user, room)

SpecAppend == Init /\ [][NextAppend]_vars

\* ------------------------------------------------- state resolution calls
\* The orders a collection can be handed over in.
Orderings(S) ==
  { f \in [1 .. Cardinality(S) -> S] : \A i, j \in DOMAIN f : f[i] = f[j] => i = j }

\* The BTreeMap<StateId, StateMap> a caller builds by inserting the stored
\* groups in the given order.
RECURSIVE collect_groups(_, _, _, _)
collect_groups(rs, order, i, acc) ==
  IF i > Len(order) THEN acc
  ELSE collect_groups(rs, order, i + 1,
                      MapInsert(acc, order[i], get_statemap(rs, order[i])))

\* The entry points exercised: resolve_state_group_for_events on a set of at
\* most MaxPrev prev events, or resolve_state_groups on stored groups.
Calls(rs) ==
  { [fn |-> "for_events", events |-> E, groups |-> {}] :
      E \in { S \in SUBSET PrevEvents : Cardinality(S) <= MaxPrev } }
  \cup
  { [fn |-> "groups", events |-> {}, groups |-> G] :
      G \in SUBSET DOMAIN rs.stategroupid_eventnumidrange }

InitResolve ==
  /\ InitWith({1})
  /\ room_state \in RoomStates
  /\ overflow_checks \in BOOLEAN
  /\ call \in Calls(room_state)
  /\ out = <<NotRun, NotRun>>
  /\ NoCounterCalls
  /\ NoContextCall
  /\ NoOtherCalls

\* One call of resolve_state_groups, the groups inserted in some order.
ResolveStateGroups(order, rnd) ==
  /\ call.fn = "groups"
  /\ out' = <<out[2], resolve_state_groups(collect_groups(room_state, order, 1, EmptyMap), rnd)>>
  /\ UNCHANGED <<room_state, overflow_checks, call>>
  /\ UNCHANGED <<fvars, cvars, xvars, yvars>>

\* One call of resolve_state_group_for_events, the prev events in some order.
ResolveStateGroupForEvents(order, rnd) ==
  /\ call.fn = "for_events"
  /\ LET r == resolve_state_group_for_events(room_state, order, rnd, overflow_checks)
     IN  /\ r.rs.current_state_id <= MaxStateId
         /\ room_state' = r.rs
         /\ out' = <<out[2], r.result>>
  /\ UNCHANGED <<overflow_checks, call>>
  /\ UNCHANGED <<fvars, cvars, xvars, yvars>>

NextResolve ==
  \/ \E order \in Orderings(call.groups), rnd \in RandomStrings :
       ResolveStateGroups(order, rnd)
  \/ \E order \in Orderings(call.events), rnd \in RandomStrings :
       ResolveStateGroupForEvents(order, rnd)

SpecResolve == InitResolve /\ [][NextResolve]_vars

\* ----------------------------------------------------- make_state_cache calls
\* The state maps make_state_cache may be handed as new_state: every slot of
\* the tables absent or filled with one of the events stored for it.
NewStates ==
  LET rows(S) == { n \in S : \A o \in S : NumIdTable[o].type = NumIdTable[n].type
                                          /\ NumIdTable[o].key = NumIdTable[n].key
                                          => o = n }
      picks == { S \in SUBSET NumIds : rows(S) = S }
  IN  { [k \in { <<NumIdTable[n].type, NumIdTable[n].key>> : n \in S } |->
           NumIdTable[CHOOSE n \in S : <<NumIdTable[n].type, NumIdTable[n].key>> = k].eid] :
        S \in picks }

CacheCalls(rs) ==
  { [fn |-> "cache", events |-> {}, groups |-> G, new_state |-> m] :
      G \in SUBSET DOMAIN rs.stategroupid_eventnumidrange, m \in NewStates }

InitCache ==
  /\ InitWith({1})
  /\ room_state \in RoomStates
  /\ overflow_checks = TRUE
  /\ call \in CacheCalls(room_state)
  /\ out = <<NotRun, NotRun>>
  /\ NoCounterCalls
  /\ NoContextCall
  /\ NoOtherCalls

\* One call of make_state_cache, the groups inserted in some order.
MakeStateCache(order, rnd) ==
  /\ call.fn = "cache"
  /\ out' = <<out[2],
              Returned(make_state_cache(call.new_state,
                                        collect_groups(room_state, order, 1, EmptyMap), rnd))>>
  /\ UNCHANGED <<room_state, overflow_checks, call>>
  /\ UNCHANGED <<fvars, cvars, xvars, yvars>>

NextCache ==
  \E order \in Orderings(call.groups), rnd \in RandomStrings : MakeStateCache(order, rnd)

SpecCache == InitCache /\ [][NextCache]_vars

\* ------------------------------------------------- new_state_group_id calls
\* The stored tables at process start: any set of stored groups.
CounterTables ==
  { rs \in RoomStates :
      \A g \in DOMAIN rs.stategroupid_eventnumidrange :
        rs.stategroupid_eventnumidrange[g] = <<1, 3>> }

\* The value current_state_id may hold when the process starts.  The
\* construction of RoomState is not part of the sources at hand and
\* new_state_group_id writes to no table, so the value comes from what is
\* stored: a counter that was never written, or the last stored group.
RestoredCounters(rs) ==
  {0} \cup (IF DOMAIN rs.stategroupid_eventnumidrange = {} THEN {}
            ELSE {current_state_id(rs) + 1})

InitCounter ==
  /\ InitWith({1})
  /\ \E rs \in CounterTables : \E c \in RestoredCounters(rs) :
       room_state = [rs EXCEPT !.current_state_id = c]
  /\ overflow_checks = TRUE
  /\ call = NoCall
  /\ out = <<NotRun, NotRun>>
  /\ NoCounterCalls
  /\ NoContextCall
  /\ NoOtherCalls

\* Thread t calls new_state_group_id: one atomic fetch_add.
NewStateGroupId(t) ==
  /\ Len(issued) < MaxStateId
  /\ LET alloc == new_state_group_id(room_state)
     IN  /\ room_state' = alloc.rs
         /\ got' = [got EXCEPT ![t] = alloc.value]
         /\ issued' = Append(issued, alloc.value)
  /\ UNCHANGED <<overflow_checks, call, out, issued_before, ctx>>
  /\ UNCHANGED <<fvars, xvars, yvars>>

\* The process stops and starts again: the tables are kept, the counter is
\* set up anew.
Restart ==
  /\ issued # << >>
  /\ \E c \in RestoredCounters(room_state) :
       room_state' = [room_state EXCEPT !.current_state_id = c]
  /\ issued_before' = issued_before \cup Range(issued)
  /\ issued' = << >>
  /\ got' = [t \in Threads |-> NoId]
  /\ UNCHANGED <<overflow_checks, call, out, ctx>>
  /\ UNCHANGED <<fvars, xvars, yvars>>

NextCounter ==
  \/ \E t \in Threads : NewStateGroupId(t)
  \/ Restart

SpecCounter == InitCounter /\ [][NextCounter]_vars

\* -------------------------------------------------- compute_event_context
\* Largest number of events in the old state handed to compute_event_context.
MaxOld == 2

\* pdu_to_state_map
pdu_to_state_map(pdu) == << <<pdu.kind, pdu.state_key>>, pdu.event_id >>

\* old.iter().map(pdu_to_state_map).collect::<StateMap<EventId>>(): a later
\* event replaces an earlier one of the same slot.
RECURSIVE collect_state_map(_, _, _)
collect_state_map(old, i, acc) ==
  IF i > Len(old) THEN acc
  ELSE collect_state_map(old, i + 1,
         MapInsert(acc, pdu_to_state_map(old[i])[1], pdu_to_state_map(old[i])[2]))

\* EventContext, of which only the two state maps are ever filled.
EventContext(curr_state, prev_state) ==
  [state_group |-> None, state_group_before_event |-> None, prev_group |-> None,
   delta |-> NoMap, current_state_ids |-> curr_state, prev_state_ids |-> prev_state]

\* compute_event_context: the context returned, or a panic, and the RoomState
\* the call leaves behind.  Past the outlier branch the function runs into
\* todo!(), after resolve_state_group_for_events when no old state is given.
compute_event_context(rs, pdu, old_state, rnd, checks) ==
  LET prev == collect_state_map(old_state.pdus, 1, EmptyMap)
      curr == IF is_state(pdu)
              THEN MapInsert(prev, <<pdu.kind, pdu.state_key>>, pdu.event_id)
              ELSE prev
      entry == resolve_state_group_for_events(rs, pdu.prev_events, rnd, checks)
  IN  IF pdu.outlier
      THEN IF old_state.some
           THEN [status |-> "ok", context |-> EventContext(curr, prev), rs |-> rs]
           ELSE [status |-> "ok", context |-> EventContext(EmptyMap, EmptyMap), rs |-> rs]
      ELSE IF old_state.some
      THEN [status |-> "panic", context |-> EventContext(EmptyMap, EmptyMap), rs |-> rs]
      ELSE [status |-> "panic", context |-> EventContext(EmptyMap, EmptyMap), rs |-> entry.rs]

\* The events compute_event_context is called for.
NewEventId == 301
ContextPdus ==
  { [event_id |-> NewEventId, kind |-> k[1], state_key |-> k[2], outlier |-> o,
     prev_events |-> p] :
      k \in { <<"m.room.name", "">>, <<"m.room.member", "a">>, <<"m.room.message", NoKey>> },
      o \in BOOLEAN,
      p \in UNION { Orderings(S) : S \in { T \in SUBSET PrevEvents : Cardinality(T) <= MaxPrev } } }

\* The stored state events as PduEvents, and the old states built of them.
OldPdus ==
  { [event_id |-> NumIdTable[n].eid, kind |-> NumIdTable[n].type,
     state_key |-> NumIdTable[n].key] : n \in NumIds }
OldStates ==
  { [some |-> FALSE, pdus |-> << >>] }
  \cup { [some |-> TRUE, pdus |-> o] :
           o \in UNION { Orderings(S) : S \in { T \in SUBSET OldPdus : Cardinality(T) <= MaxOld } } }

InitContext ==
  /\ InitWith({1})
  /\ room_state \in CounterTables
  /\ overflow_checks \in BOOLEAN
  /\ call = NoCall
  /\ out = <<NotRun, NotRun>>
  /\ NoCounterCalls
  /\ NoContextCall
  /\ NoOtherCalls

\* The call of compute_event_context a behaviour consists of.
ComputeEventContext(pdu, old_state, rnd) ==
  LET r == compute_event_context(room_state, pdu, old_state, rnd, overflow_checks)
  IN  /\ ctx = NoContext
      /\ room_state' = r.rs
      /\ ctx' = [status |-> r.status, pdu |-> pdu, old_state |-> old_state,
                 context |-> r.context]
      /\ UNCHANGED <<overflow_checks, call, out, issued, issued_before, got>>
      /\ UNCHANGED <<fvars, xvars, yvars>>

NextContext ==
  \E pdu \in ContextPdus, old_state \in OldStates, rnd \in RandomStrings :
    ComputeEventContext(pdu, old_state, rnd)

SpecContext == InitContext /\ [][NextContext]_vars

\* ------------------------------------------------------- state table reads
\* The event ID lists handed to get_state_group_ids.
EventIdLists ==
  UNION { Orderings(S) : S \in { T \in SUBSET PrevEvents : Cardinality(T) <= MaxPrev } }

\* The StateId arguments of prev_state_id: the stored IDs and one beyond.
StateIdArgs == GroupIds \cup {Max(GroupIds) + 1}

InitState ==
  /\ InitWith({1})
  /\ room_state \in RoomStates
  /\ overflow_checks \in BOOLEAN
  /\ call = NoCall
  /\ out = <<NotRun, NotRun>>
  /\ NoCounterCalls
  /\ NoContextCall
  /\ NoOtherCalls

\* A call of RoomState::get_state_group_ids.
GetStateGroupIds(event_ids) ==
  /\ rd' = [fn |-> "get_state_group_ids", event_ids |-> event_ids,
            result |-> get_state_group_ids(room_state, event_ids)]
  /\ UNCHANGED <<fvars, svars, cvars, disk, req, yvars>>

\* A call of RoomState::prev_state_id.
PrevStateId(current) ==
  /\ rd' = [fn |-> "prev_state_id", current |-> current,
            result |-> prev_state_id(room_state, current, overflow_checks)]
  /\ UNCHANGED <<fvars, svars, cvars, disk, req, yvars>>

NextState ==
  \/ \E event_ids \in EventIdLists : GetStateGroupIds(event_ids)
  \/ \E current \in StateIdArgs : PrevStateId(current)

SpecState == InitState /\ [][NextState]_vars

\* ------------------------------------------- statemap_from_numid_range calls
\* The trees a scan may find: all rows, or one row missing.
TreeDomains == {NumIds} \cup { NumIds \ {n} : n \in NumIds }
Trees(full) == { [n \in D |-> full[n]] : D \in TreeDomains }

InitStatemap ==
  /\ InitWith({1})
  /\ room_state = NoRoomState
  /\ overflow_checks = TRUE
  /\ call = NoCall
  /\ out = <<NotRun, NotRun>>
  /\ NoCounterCalls
  /\ NoContextCall
  /\ NoOtherCalls

\* A call of statemap_from_numid_range on the trees as they are stored.
StatemapFromNumidRange(types, keys, ids, range) ==
  /\ rd' = [fn |-> "statemap_from_numid_range", types |-> types, keys |-> keys,
            ids |-> ids, range |-> range,
            result |-> statemap_from_trees(types, keys, ids, range)]
  /\ UNCHANGED <<fvars, svars, cvars, disk, req, yvars>>

NextStatemap ==
  \E types \in Trees(eventnumid_eventtype), keys \in Trees(eventnumid_statekey),
     ids \in Trees(eventnumid_eventid), range \in Ranges :
    StatemapFromNumidRange(types, keys, ids, range)

SpecStatemap == InitStatemap /\ [][NextStatemap]_vars

\* ------------------------------------------------- Database::load_or_create
\* Largest number of process starts.
MaxStarts == 3

\* sled::Db::import of old.export(): every key of the old tree is inserted
\* into the tree of the same name.  Over a key that is there already the
\* insert replaces the value, and a build that checks for it panics.
MapRemove(m, k) == [x \in (DOMAIN m) \ {k} |-> m[x]]
import(tree, export) ==
  [k \in (DOMAIN tree) \cup (DOMAIN export) |->
     IF k \in DOMAIN export THEN export[k] ELSE tree[k]]
import_panics(tree, export, asserts) ==
  asserts /\ (DOMAIN tree) \cap (DOMAIN export) # {}

InitDatabase ==
  /\ InitWith({1})
  /\ room_state = NoRoomState
  /\ overflow_checks = TRUE
  /\ call = NoCall
  /\ out = <<NotRun, NotRun>>
  /\ NoCounterCalls
  /\ NoContextCall
  /\ rd = NoRead
  /\ req = NoRequest
  /\ NoLateCalls
  /\ \E old \in TreeContents, a \in BOOLEAN :
       disk = [NoDisk EXCEPT !.old = old, !.asserts = a]

\* Database::load_or_create: opens the database, imports the old one, opens
\* the trees.  (The trees it drops are not trees of the room store.)
LoadOrCreate ==
  /\ disk.status = "down"
  /\ disk.starts < MaxStarts
  /\ disk' = IF import_panics(disk.db, disk.old, disk.asserts)
             THEN [disk EXCEPT !.status = "failed", !.starts = @ + 1]
             ELSE [disk EXCEPT !.db = import(disk.db, disk.old),
                               !.status = "up", !.starts = @ + 1]
  /\ UNCHANGED <<fvars, svars, cvars, rd, req, yvars>>

\* The running server writes a value of the tree.
TreeInsert(k, v) ==
  /\ disk.status = "up"
  /\ disk' = [disk EXCEPT !.db = MapInsert(@, k, v)]
  /\ UNCHANGED <<fvars, svars, cvars, rd, req, yvars>>

\* The running server removes a key of the tree.
TreeRemove(k) ==
  /\ disk.status = "up"
  /\ k \in DOMAIN disk.db
  /\ disk' = [disk EXCEPT !.db = MapRemove(@, k)]
  /\ UNCHANGED <<fvars, svars, cvars, rd, req, yvars>>

\* The process ends; the databases stay as they are.
Shutdown ==
  /\ disk.status \in {"up", "failed"}
  /\ disk' = [disk EXCEPT !.status = "down"]
  /\ UNCHANGED <<fvars, svars, cvars, rd, req, yvars>>

NextDatabase ==
  \/ LoadOrCreate
  \/ \E k \in TreeKeys, v \in TreeValues : TreeInsert(k, v)
  \/ \E k \in TreeKeys : TreeRemove(k)
  \/ Shutdown

SpecDatabase == InitDatabase /\ [][NextDatabase]_vars

\* ------------------------------------------------------------ send_request
\* Server names: a host and, after a ':', a port (NoPort: none written).
NoPort == 0
DefaultPort == 8448
Hosts == {"example.com", "matrix.example.com"}
ServerNames == [host : Hosts, port : {NoPort, DefaultPort}]
NoName == [host |-> "", port |-> NoPort]

\* str::find(':').is_none()
has_port(name) == name.port # NoPort
\* name += ":8448"
with_default_port(name) == [name EXCEPT !.port = DefaultPort]

\* request_well_known: Some(m.server) or None, as the remote host answers.
WellKnownAnswers == [some : {TRUE}, name : ServerNames] \cup {[some |-> FALSE, name |-> NoName]}

\* The SRV records of _matrix._tcp.{name} as the resolver answers: the first
\* target, or none.
SrvTarget == [host |-> "srv.example.com", port |-> NoPort]
NoSrv == [some |-> FALSE, name |-> NoName]
SrvTables == [ServerNames -> {NoSrv, [some |-> TRUE, name |-> SrvTarget]}]
srv_lookup(dns, name) == dns[name]

\* send_request up to the request it hands to reqwest: where it connects
\* (actual_destination without the "https://"), the Host header it sets and
\* the destination field of the signed JSON.
send_request(destination, well_known, dns) ==
  LET delegated_hostname == well_known.name
      srv == srv_lookup(dns, delegated_hostname)
  IN  IF well_known.some
      THEN IF srv.some
           THEN [actual_destination |-> srv.name,
                 host |-> [some |-> TRUE, name |-> delegated_hostname],
                 json_destination |-> destination]
           ELSE [actual_destination |-> IF has_port(delegated_hostname)
                                        THEN delegated_hostname
                                        ELSE with_default_port(delegated_hostname),
                 host |-> [some |-> FALSE, name |-> NoName],
                 json_destination |-> destination]
      ELSE [actual_destination |-> IF has_port(destination) THEN destination
                                   ELSE with_default_port(destination),
            host |-> [some |-> FALSE, name |-> NoName],
            json_destination |-> destination]

InitRequest ==
  /\ InitWith({1})
  /\ room_state = NoRoomState
  /\ overflow_checks = TRUE
  /\ call = NoCall
  /\ out = <<NotRun, NotRun>>
  /\ NoCounterCalls
  /\ NoContextCall
  /\ NoOtherCalls

\* One call of send_request, with what the network answers during it.
SendRequest(destination, well_known, dns) ==
  /\ req' = [status |-> "sent", destination |-> destination, well_known |-> well_known,
             dns |-> dns, request |-> send_request(destination, well_known, dns)]
  /\ UNCHANGED <<fvars, svars, cvars, rd, disk, yvars>>

NextRequest ==
  \E destination \in ServerNames, well_known \in WellKnownAnswers, dns \in SrvTables :
    SendRequest(destination, well_known, dns)

SpecRequest == InitRequest /\ [][NextRequest]_vars

\* ------------------------------------------------------------- AccountData
\* Keys of roomuserdataid_accountdata are byte strings: room 0xff user 0xff
\* count 0xff type.  Bytes are the numbers 0 .. 255.
Sep == 255

\* Number of bytes of a u64 kept in the model (the code has 8).
CountBytes == 2
U64Max == 256 ^ CountBytes - 1

\* Largest number of AccountData::update calls in a behaviour.
MaxUpdates == 3

\* room_id.map(|r| r.to_string()).unwrap_or_default().as_bytes(): no room is
\* the empty string, the room is "!r".
AdRooms == { << >>, <<33, 114>> }
\* user_id.to_string().as_bytes(): "@a" and "@ab".
AdUsers == { <<64, 97>>, <<64, 97, 98>> }
\* event.event_type().to_string().as_bytes(): "d" and "p".
AdKinds == { <<100>>, <<112>> }

\* u64::to_be_bytes
to_be_bytes(n) == [i \in 1 .. CountBytes |-> (n \div 256 ^ (CountBytes - i)) % 256]

\* The prefix every function of AccountData builds: room 0xff user 0xff.
ad_prefix(room, user) == room \o <<Sep>> \o user \o <<Sep>>

\* The key AccountData::update inserts.
ad_key(room, user, count, kind) ==
  ad_prefix(room, user) \o to_be_bytes(count) \o <<Sep>> \o kind

\* slice::starts_with
starts_with(k, p) == Len(k) >= Len(p) /\ SubSeq(k, 1, Len(p)) = p

\* k.rsplit(|&b| b == 0xff).next(): the bytes after the last 0xff.
last_segment(k) ==
  LET seps == { i \in 1 .. Len(k) : k[i] = Sep }
  IN  IF seps = {} THEN k ELSE SubSeq(k, Max(seps) + 1, Len(k))

\* AccountData::key_matches_with_event_type
key_matches_with_event_type(kind, k) == last_segment(k) = kind

\* The order of the keys of a sled tree: bytewise, a proper prefix first.
bytes_less(a, b) ==
  \E i \in 1 .. Len(b) :
    /\ \A j \in 1 .. i - 1 : j <= Len(a) /\ a[j] = b[j]
    /\ i > Len(a) \/ (i <= Len(a) /\ a[i] < b[i])

\* The last key of a set of keys in tree order.
last_key(keys) == CHOOSE k \in keys : \A j \in keys : j = k \/ bytes_less(j, k)

\* Mutant: the old entry is never found.
find_events_of_type_none(tree, room, user, kind) == {}

\* AccountData::find_events_of_type: the keys under the prefix whose type is
\* `kind`; the iterator yields them last key first.
find_events_of_type(tree, room, user, kind) ==
  { k \in DOMAIN tree :
      starts_with(k, ad_prefix(room, user)) /\ key_matches_with_event_type(kind, k) }

\* Globals::next_count: the counter after the increment.
next_count(counter) == (counter + 1) % (U64Max + 1)

\* AccountData::update: the tree after the call.
update(tree, counter, room, user, kind, event) ==
  LET found == find_events_of_type(tree, room, user, kind)
      removed == IF found = {} THEN tree ELSE MapRemove(tree, last_key(found))
  IN  MapInsert(removed, ad_key(room, user, next_count(counter), kind), event)

\* AccountData::changes_since builds the start of its scan from since + 1,
\* which wraps for u64::MAX in a build without overflow checks.
first_possible(room, user, since) ==
  ad_prefix(room, user) \o to_be_bytes((since + 1) % (U64Max + 1))

\* AccountData::changes_since: range(first_possible..), taken while the key
\* starts with the prefix, collected into a map by type (a later key replaces
\* an earlier one of the same type).
changes_since(tree, room, user, since, checks) ==
  IF since = U64Max /\ checks THEN [status |-> "panic", userdata |-> EmptyMap]
  ELSE LET first == first_possible(room, user, since)
           range == { k \in DOMAIN tree : ~bytes_less(k, first) }
           taken == { k \in range :
                        \A j \in range :
                          (j = k \/ bytes_less(j, k)) => starts_with(j, ad_prefix(room, user)) }
           kinds == { last_segment(k) : k \in taken }
       IN  [status |-> "ok",
            userdata |-> [kind \in kinds |->
                            tree[last_key({ k \in taken : last_segment(k) = kind })]]]

\* The counter values a server is started with, and the `since` values asked.
StartCounts == {0, 253}
Sinces == {0, 1, 2, 254, 255, U64Max}

InitAccountData ==
  /\ InitWith({1})
  /\ room_state = NoRoomState
  /\ overflow_checks \in BOOLEAN
  /\ call = NoCall
  /\ out = <<NotRun, NotRun>>
  /\ NoCounterCalls
  /\ NoContextCall
  /\ rd = NoRead /\ disk = NoDisk /\ req = NoRequest
  /\ ms = NoRoute /\ ev = NoClientEvent /\ gm = NoMissing /\ tr = NoTrees
  /\ \E c \in StartCounts : ad = [NoAccountData EXCEPT !.counter = c]

\* A call of AccountData::update; the event stored is the one of the n-th call.
Update(room, user, kind) ==
  /\ ad.updates < MaxUpdates
  /\ ad.read.status = "none"
  /\ ad' = [ad EXCEPT
              !.tree = update(ad.tree, ad.counter, room, user, kind, ad.updates + 1),
              !.counter = next_count(ad.counter),
              !.updates = @ + 1,
              !.latest = MapInsert(@, <<room, user, kind>>, ad.updates + 1)]
  /\ UNCHANGED <<fvars, svars, cvars, xvars, ms, ev, gm, tr>>

\* The call of AccountData::changes_since a behaviour ends with.
ChangesSince(room, user, since) ==
  LET r == changes_since(ad.tree, room, user, since, overflow_checks)
  IN  /\ ad.read.status = "none"
      /\ ad' = [ad EXCEPT !.read = [status |-> r.status, room |-> room, user |-> user,
                                     since |-> since, userdata |-> r.userdata]]
      /\ UNCHANGED <<fvars, svars, cvars, xvars, ms, ev, gm, tr>>

NextAccountData ==
  \/ \E room \in AdRooms, user \in AdUsers, kind \in AdKinds : Update(room, user, kind)
  \/ \E room \in AdRooms, user \in AdUsers, since \in Sinces : ChangesSince(room, user, since)

SpecAccountData == InitAccountData /\ [][NextAccountData]_vars

\* ------------------------------------------------- client routes on a room
\* Largest number of events the client routes append in a behaviour.
MaxRoomEvents == 3

\* The authenticated users that call the routes, and the room they call on.
RouteUsers == {"a", "c"}
RouteRooms == {"r1"}

\* Rooms::room_state_get: the event in a slot of the room's current state.
room_state_get(d, room, kind, state_key) ==
  IF <<kind, state_key>> \in DOMAIN d.roomstateid_pdu[room]
  THEN [some |-> TRUE, pdu |-> d.pdu_by_id[d.roomstateid_pdu[room][<<kind, state_key>>]]]
  ELSE [some |-> FALSE, pdu |-> NoAppend.pdu]

\* The membership in the user's member event in the room state; "none"
\* without such an event.
membership_of(d, user, room) ==
  LET e == room_state_get(d, room, "m.room.member", user)
  IN  IF e.some THEN e.pdu.membership ELSE "none"

\* The m.room.member event a route hands to append_pdu as a PduBuilder.
member_event(d, n, sender, target, membership, room) ==
  [event_id |-> LocalId(n), room_id |-> room, sender |-> sender,
   kind |-> "m.room.member", state_key |-> target, membership |-> membership,
   prev_events |-> d.roomid_pduleaves[room], sig_ok |-> TRUE]

\* What a route that appends a member event leaves behind.
AppendMember(route, sender, target, membership, room) ==
  /\ nlocal < MaxRoomEvents
  /\ nlocal' = nlocal + 1
  /\ db' = append_pdu(db, member_event(db, nlocal + 1, sender, target, membership, room)).db
  /\ ms' = [route |-> route, sender |-> sender, target |-> target, room |-> room,
            before |-> membership_of(db, target, room), result |-> "ok",
            appended |-> TRUE, disclosed |-> {}]

\* What a route that fails, or only reads, leaves behind.
Answer(route, sender, target, room, result, disclosed) ==
  /\ ms' = [route |-> route, sender |-> sender, target |-> target, room |-> room,
            before |-> membership_of(db, target, room), result |-> result,
            appended |-> FALSE, disclosed |-> disclosed]
  /\ UNCHANGED <<db, nlocal>>

RouteFrame ==
  /\ UNCHANGED <<handlers, pc, txn_len, reached, cur, resolved_map, outcome, last, npdus>>
  /\ UNCHANGED <<svars, cvars, xvars, ad, ev, gm, tr>>

\* join_room_by_id_route
JoinRoomById(sender, room) ==
  /\ AppendMember("join", sender, sender, "join", room)
  /\ RouteFrame

\* invite_user_route, the recipient given as a user ID
InviteUser(sender, target, room) ==
  /\ AppendMember("invite", sender, target, "invite", room)
  /\ RouteFrame

\* ban_user_route: the target's member event, or a new one, with membership ban
BanUser(sender, target, room) ==
  /\ AppendMember("ban", sender, target, "ban", room)
  /\ RouteFrame

\* leave_room_route: BadState when the room state has no member event of the
\* sender; else that event with membership leave is appended.
LeaveRoom(sender, room) ==
  /\ IF room_state_get(db, room, "m.room.member", sender).some
     THEN AppendMember("leave", sender, sender, "leave", room)
     ELSE Answer("leave", sender, sender, room, "BadState", {})
  /\ RouteFrame

\* unban_user_route: BadState when the room state has no member event of the
\* target; else that event with membership leave is appended.
UnbanUser(sender, target, room) ==
  /\ IF room_state_get(db, room, "m.room.member", target).some
     THEN AppendMember("unban", sender, target, "leave", room)
     ELSE Answer("unban", sender, target, room, "BadState", {})
  /\ RouteFrame

\* Mutant: the guard lets every user through.
may_read_anyone(d, user, room) == TRUE

\* The guard at the head of get_message_events_route, get_member_events_route
\* and joined_members_route.
may_read(d, user, room) == is_joined(d, user, room)

\* Rooms::pdus_after / pdus_until: the events of the room's timeline.
room_pdus(d, room) == { id \in DOMAIN d.seq_by_id : d.pdu_by_id[id].room_id = room }

\* Rooms::room_state_type(room, RoomMember): the member events of the state.
room_member_events(d, room) ==
  { d.roomstateid_pdu[room][s] :
      s \in { t \in DOMAIN d.roomstateid_pdu[room] : t[1] = "m.room.member" } }

\* Rooms::room_members: the users joined to the room.
room_members(d, room) == { ur[1] : ur \in { x \in d.userroomid_joined : x[2] = room } }

\* get_message_events_route
GetMessageEvents(sender, room) ==
  /\ IF may_read(db, sender, room)
     THEN Answer("messages", sender, sender, room, "ok", room_pdus(db, room))
     ELSE Answer("messages", sender, sender, room, "Forbidden", {})
  /\ RouteFrame

\* get_member_events_route
GetMemberEvents(sender, room) ==
  /\ IF may_read(db, sender, room)
     THEN Answer("members", sender, sender, room, "ok", room_member_events(db, room))
     ELSE Answer("members", sender, sender, room, "Forbidden", {})
  /\ RouteFrame

\* joined_members_route
JoinedMembers(sender, room) ==
  /\ IF may_read(db, sender, room)
     THEN Answer("joined_members", sender, sender, room, "ok", room_members(db, room))
     ELSE Answer("joined_members", sender, sender, room, "Forbidden", {})
  /\ RouteFrame

NextRoutes ==
  \/ \E sender \in RouteUsers, room \in RouteRooms : JoinRoomById(sender, room)
  \/ \E sender \in RouteUsers, target \in RouteUsers, room \in RouteRooms :
       InviteUser(sender, target, room)
  \/ \E sender \in RouteUsers, target \in RouteUsers, room \in RouteRooms :
       BanUser(sender, target, room)
  \/ \E sender \in RouteUsers, room \in RouteRooms : LeaveRoom(sender, room)
  \/ \E sender \in RouteUsers, target \in RouteUsers, room \in RouteRooms :
       UnbanUser(sender, target, room)
  \/ \E sender \in RouteUsers, room \in RouteRooms : GetMessageEvents(sender, room)
  \/ \E sender \in RouteUsers, room \in RouteRooms : GetMemberEvents(sender, room)
  \/ \E sender \in RouteUsers, room \in RouteRooms : JoinedMembers(sender, room)

SpecRoutes == Init /\ [][NextRoutes]_vars

\* ------------------------------------------------- create_new_client_event
\* The events a reaction may relate to, and the users that send reactions.
RelatedEvents == {201, 202}
Reactors == {"a", "c"}

\* content["m.relates_to"]: missing, not a RelatesTo, or in_reply_to.event_id.
NoRelation == 0
BadRelation == -1

\* The tree eventiduser_pdu: the (event_id, sender) keys under which a
\* reaction is stored.
AnnotationTables == SUBSET (RelatedEvents \X Reactors)

\* RoomState::annotated_by_user: get(key)?.map_or(Err(..), deserialize), so a
\* missing key is the Err and a stored key the PDU.
annotated_by_user(eventiduser_pdu, event_id, sender) ==
  IF <<event_id, sender>> \in eventiduser_pdu
  THEN [ok |-> TRUE, some |-> TRUE]
  ELSE [ok |-> FALSE, some |-> FALSE]

\* create_new_client_event: compute_event_context without an old state, then
\* the check of m.relates_to.
create_new_client_event(rs, eventiduser_pdu, pdu, rnd, checks) ==
  LET r == compute_event_context(rs, pdu, [some |-> FALSE, pdus |-> << >>], rnd, checks)
      found == annotated_by_user(eventiduser_pdu, pdu.relates_to, pdu.sender)
  IN  IF r.status # "ok" THEN [status |-> r.status, rs |-> r.rs]
      ELSE IF pdu.relates_to = NoRelation THEN [status |-> "ok", rs |-> r.rs]
      ELSE IF pdu.relates_to = BadRelation THEN [status |-> "bad_database", rs |-> r.rs]
      ELSE IF ~found.ok THEN [status |-> "bad_database", rs |-> r.rs]
      ELSE IF found.some THEN [status |-> "Conflict", rs |-> r.rs]
      ELSE [status |-> "ok", rs |-> r.rs]

\* The client events create_new_client_event is called for.
ClientPdus ==
  { [event_id |-> NewEventId, kind |-> "m.reaction", state_key |-> NoKey, outlier |-> o,
     prev_events |-> p, sender |-> s, relates_to |-> rel] :
      o \in BOOLEAN,
      p \in UNION { Orderings(S) : S \in { T \in SUBSET PrevEvents : Cardinality(T) <= 1 } },
      s \in Reactors,
      rel \in RelatedEvents \cup {NoRelation, BadRelation} }

InitClientEvent ==
  /\ InitWith({1})
  /\ room_state \in CounterTables
  /\ overflow_checks \in BOOLEAN
  /\ call = NoCall
  /\ out = <<NotRun, NotRun>>
  /\ NoCounterCalls
  /\ NoContextCall
  /\ rd = NoRead /\ disk = NoDisk /\ req = NoRequest
  /\ ad = NoAccountData /\ ms = NoRoute /\ gm = NoMissing /\ tr = NoTrees
  /\ \E t \in AnnotationTables : ev = [status |-> "none", eventiduser_pdu |-> t]

\* The call of create_new_client_event a behaviour consists of.
CreateNewClientEvent(pdu, rnd) ==
  LET r == create_new_client_event(room_state, ev.eventiduser_pdu, pdu, rnd, overflow_checks)
  IN  /\ ev.status = "none"
      /\ room_state' = r.rs
      /\ ev' = [status |-> r.status, eventiduser_pdu |-> ev.eventiduser_pdu, pdu |-> pdu]
      /\ UNCHANGED <<overflow_checks, call, out, cvars>>
      /\ UNCHANGED <<fvars, xvars, ad, ms, gm, tr>>

NextClientEvent ==
  \E pdu \in ClientPdus, rnd \in RandomStrings : CreateNewClientEvent(pdu, rnd)

SpecClientEvent == InitClientEvent /\ [][NextClientEvent]_vars

\* ------------------------------------------------ get_missing_events_route
\* Largest `limit` of a request.
MaxLimit == 4

\* The event IDs requests and stored events name.
MissingIds == {501, 502, 503}

\* prev_events of a stored event: up to two IDs, the event itself and IDs of
\* events not stored among them.
PrevLists ==
  UNION { Orderings(S) : S \in { T \in SUBSET MissingIds : Cardinality(T) <= 2 } }

\* The events Rooms::get_pdu_json finds: stored event ID -> prev_events.
StoredGraphs == UNION { [S -> PrevLists] : S \in SUBSET MissingIds }

\* body.latest_events, body.earliest_events and body.limit.
LatestLists ==
  { <<501>> } \cup { <<501, id>> : id \in MissingIds }
EarliestLists == { {} } \cup { {id} : id \in MissingIds }

\* Mutant: an event of earliest_events is not passed over.
skip_earliest_stays(i) == i

\* `i += 1; continue;` for an event of earliest_events.
skip_earliest(i) == i + 1

\* Mutant: no event counts as one of earliest_events.
is_earliest_never(earliest_events, event_id) == FALSE

\* body.earliest_events.contains(event_id of the PDU)
is_earliest(earliest_events, event_id) == event_id \in earliest_events

\* The condition of the while loop; i counts from 0.
loop_condition(g) == g.i < Len(g.queued_events) /\ Len(g.events) < g.limit

InitMissing ==
  /\ InitWith({1})
  /\ room_state = NoRoomState
  /\ overflow_checks = TRUE
  /\ call = NoCall
  /\ out = <<NotRun, NotRun>>
  /\ NoCounterCalls
  /\ NoContextCall
  /\ rd = NoRead /\ disk = NoDisk /\ req = NoRequest
  /\ ad = NoAccountData /\ ms = NoRoute /\ ev = NoClientEvent /\ tr = NoTrees
  /\ \E graph \in StoredGraphs, latest \in LatestLists, earliest \in EarliestLists,
        limit \in 0 .. MaxLimit :
       gm = [pc |-> "loop", graph |-> graph, latest_events |-> latest,
             earliest_events |-> earliest, limit |-> limit,
             queued_events |-> latest, events |-> << >>, i |-> 0]

\* One pass of the while loop.
LoopStep ==
  /\ gm.pc = "loop"
  /\ loop_condition(gm)
  /\ LET id == gm.queued_events[gm.i + 1]
     IN  gm' = IF id \notin DOMAIN gm.graph
               THEN [gm EXCEPT !.i = @ + 1]
               ELSE IF is_earliest(gm.earliest_events, id)
               THEN [gm EXCEPT !.i = skip_earliest(@)]
               ELSE [gm EXCEPT !.queued_events = @ \o gm.graph[id],
                               !.events = Append(@, id),
                               !.i = @ + 1]
  /\ UNCHANGED <<fvars, svars, cvars, xvars, ad, ms, ev, tr>>

\* The loop is left and the response is built of `events`.
Respond ==
  /\ gm.pc = "loop"
  /\ ~loop_condition(gm)
  /\ gm' = [gm EXCEPT !.pc = "done"]
  /\ UNCHANGED <<fvars, svars, cvars, xvars, ad, ms, ev, tr>>

NextMissing == LoopStep \/ Respond

\* The handler runs until it returns.
SpecMissing == InitMissing /\ [][NextMissing]_vars /\ WF_vars(NextMissing)

\* ------------------------------------------ the trees of the room store
\* Largest number of writes to the room store in a behaviour.
MaxWrites == 2

\* The handles of rooms::Rooms and rooms::RoomEdus and the name each is
\* opened with in Database::load_or_create.
OpenedAs ==
  [roomuserid_lastread |-> "roomuserid_lastread",
   roomlatestid_roomlatest |-> "roomlatestid_roomlatest",
   roomactiveid_userid |-> "roomactiveid_userid",
   roomid_lastroomactiveupdate |-> "roomid_lastroomactiveupdate",
   pduid_pdu |-> "pduid_pdu",
   eventid_pduid |-> "eventid_pduid",
   roomid_pduleaves |-> "roomid_pduleaves",
   roomstateid_pdu |-> "roomstateid_pdu",
   alias_roomid |-> "alias_roomid",
   aliasid_alias |-> "alias_roomid",
   publicroomids |-> "publicroomids",
   userroomid_joined |-> "userroomid_joined",
   roomuserid_joined |-> "roomuserid_joined",
   userroomid_invited |-> "userroomid_invited",
   roomuserid_invited |-> "roomuserid_invited",
   userroomid_left |-> "userroomid_left"]

RoomHandles == DOMAIN OpenedAs

\* db.open_tree(name) for a handle: the tree of that name, one tree per name.
open_tree(handle) == OpenedAs[handle]

\* Keys and values written through the handles.
HandleKeys == {"k"}
HandleValues == {1, 2}

\* What a handle shows: the content of the tree it was opened on.
view(t, handle) == t.trees[open_tree(handle)]

InitTrees ==
  /\ InitWith({1})
  /\ room_state = NoRoomState
  /\ overflow_checks = TRUE
  /\ call = NoCall
  /\ out = <<NotRun, NotRun>>
  /\ NoCounterCalls
  /\ NoContextCall
  /\ rd = NoRead /\ disk = NoDisk /\ req = NoRequest
  /\ ad = NoAccountData /\ ms = NoRoute /\ ev = NoClientEvent /\ gm = NoMissing
  /\ tr = NoTrees

\* Database::load_or_create opens the trees of a new database.
OpenTrees ==
  /\ tr.status = "closed"
  /\ tr' = [status |-> "open",
            trees |-> [name \in { open_tree(h) : h \in RoomHandles } |-> EmptyMap],
            writes |-> 0, handle |-> ""]
  /\ UNCHANGED <<fvars, svars, cvars, xvars, ad, ms, ev, gm>>

\* sled::Tree::insert through a handle.
HandleInsert(handle, k, v) ==
  /\ tr.status = "open"
  /\ tr.writes < MaxWrites
  /\ tr' = [tr EXCEPT !.trees[open_tree(handle)] = MapInsert(@, k, v),
                      !.writes = @ + 1, !.handle = handle]
  /\ UNCHANGED <<fvars, svars, cvars, xvars, ad, ms, ev, gm>>

\* sled::Tree::remove through a handle.
HandleRemove(handle, k) ==
  /\ tr.status = "open"
  /\ tr.writes < MaxWrites
  /\ k \in DOMAIN view(tr, handle)
  /\ tr' = [tr EXCEPT !.trees[open_tree(handle)] = MapRemove(@, k),
                      !.writes = @ + 1, !.handle = handle]
  /\ UNCHANGED <<fvars, svars, cvars, xvars, ad, ms, ev, gm>>

NextTrees ==
  \/ OpenTrees
  \/ \E handle \in RoomHandles, k \in HandleKeys, v \in HandleValues :
       HandleInsert(handle, k, v)
  \/ \E handle \in RoomHandles, k \in HandleKeys : HandleRemove(handle, k)

SpecTrees == InitTrees /\ [][NextTrees]_vars

\* ------------------------------------------------------------------ claims
\* The handler has gone through process_incoming_pdu for the PDU in cur[h].
Processed(h) == reached[h] > 0

\* The reference hash of the body of a PDU on the wire.
ExpectedId(p) == CHOOSE b \in Bodies : Content[b] = p.content

Recorded(h, event_id, what) ==
  event_id \in DOMAIN resolved_map[h] /\ resolved_map[h][event_id] = what

RecordedError(h, event_id) ==
  event_id \in DOMAIN resolved_map[h] /\ resolved_map[h][event_id] # "Ok"

RequestFailed(h) == outcome[h] \in {"err_forbidden", "err_append", "panic"}

\* The loop goes on with the remaining PDUs, or the response is returned.
GoesOn(h) ==
  /\ ~RequestFailed(h)
  /\ reached[h] < txn_len[h] => pc[h] = "loop"
  /\ reached[h] = txn_len[h] /\ pc[h] = "done" => outcome[h] = "response"

\* C1: a non-state PDU whose sender is not joined to its room is recorded in
\* the result map as a Forbidden error for its event_id, the loop goes on with
\* the remaining PDUs and the request returns a response.
C1_ForbiddenIsRecorded ==
  \A h \in AllHandlers :
    (/\ Processed(h)
     /\ cur[h].content.state_key = NoKey
     /\ ~is_joined(db, cur[h].content.sender, cur[h].content.room))
      => /\ Recorded(h, ExpectedId(cur[h]), "Forbidden")
         /\ GoesOn(h)

\* C3: a request that has ended has returned a response, and the response has
\* an entry for every PDU the handler went through, keyed by the PDU's derived
\* event_id.
C3_EntryForEveryPdu ==
  \A h \in AllHandlers :
    pc[h] = "done"
      => /\ outcome[h] = "response"
         /\ Processed(h) => ExpectedId(cur[h]) \in DOMAIN resolved_map[h]

\* C4: a state PDU the handler went through is either appended to the event
\* store or has an error recorded for it in the result map.
C4_StateAppendedOrError ==
  \A h \in AllHandlers :
    (Processed(h) /\ cur[h].content.state_key # NoKey)
      => \/ ExpectedId(cur[h]) \in DOMAIN db.pdu_by_id
         \/ RecordedError(h, ExpectedId(cur[h]))

\* C5: a non-state PDU enters the event store only in a step that finds its
\* sender joined to its room.
C5_NonStateOnlyFromJoined ==
  [][\A id \in (DOMAIN db'.pdu_by_id) \ (DOMAIN db.pdu_by_id) :
        ~is_state(db'.pdu_by_id[id])
          => is_joined(db, db'.pdu_by_id[id].sender, db'.pdu_by_id[id].room_id)]_vars

\* C5 witness: the handler went through a non-state PDU whose sender is not
\* joined to its room, and the event store does not hold the PDU.
C5_Witness ==
  \E h \in AllHandlers :
    /\ Processed(h)
    /\ cur[h].content.state_key = NoKey
    /\ ~is_joined(db, cur[h].content.sender, cur[h].content.room)
    /\ ExpectedId(cur[h]) \notin DOMAIN db.pdu_by_id

\* C6: a PDU whose signature fails verification is never stored, the response
\* holds event_id -> "BadSignature" for it and the request does not fail.
C6_BadSignatureIsRecorded ==
  \A h \in AllHandlers :
    (Processed(h) /\ ~cur[h].sig_ok)
      => /\ ExpectedId(cur[h]) \notin DOMAIN db.pdu_by_id
         /\ Recorded(h, ExpectedId(cur[h]), "BadSignature")
         /\ ~RequestFailed(h)

\* Events of a room in the given set that no other event of the set in the
\* same room lists in prev_events.
Unreferenced(ids, room) ==
  { id \in ids :
      /\ db.pdu_by_id[id].room_id = room
      /\ \A other \in ids \ {id} :
           db.pdu_by_id[other].room_id = room
             => id \notin db.pdu_by_id[other].prev_events }

C26_EventIdIsReferenceHash ==
  \A h \in AllHandlers :
    Processed(h)
      => LET r == process_incoming_pdu(cur[h], IdVersion)
         IN  /\ r.status = "ok"
             /\ r.event_id = ExpectedId(cur[h])
             /\ r.value.fields["event_id"] = r.event_id

\* C27: the room version the handler derives the event ID of a PDU with is
\* the version of the PDU's room.
C27_IdVersionIsRoomVersion ==
  \A h \in AllHandlers :
    Processed(h) => IdVersion = RoomVersion[cur[h].content.room]

\* C10: two runs of resolve_state_groups / resolve_state_group_for_events on
\* the same collection of inputs, handed over in any order, return the same
\* result: the same state, state_group, state_id, prev_group and delta_ids.
C10_SameEntryEveryRun ==
  (out[1].status # "none" /\ out[2].status # "none") => out[1] = out[2]

\* The state maps of the groups the call was given.
InputMaps == { get_statemap(room_state, g) : g \in call.groups }

\* The slots every input map holds, with the same event ID in all of them.
UnconflictedSlots ==
  { k \in UNION { DOMAIN m : m \in InputMaps } :
      \A m1, m2 \in InputMaps :
        k \in DOMAIN m1 /\ k \in DOMAIN m2 /\ m1[k] = m2[k] }

\* The input maps agree on every slot two of them share.
InputsAgree ==
  \A m1, m2 \in InputMaps : \A k \in DOMAIN m1 \cap DOMAIN m2 : m1[k] = m2[k]

\* The union of the input maps (defined when they agree).
InputUnion ==
  [k \in UNION { DOMAIN m : m \in InputMaps } |->
     (CHOOSE m \in InputMaps : k \in DOMAIN m)[k]]

\* C11: resolve_state_groups returns a state that maps every slot on which
\* all input maps agree to the event ID they agree on; when the inputs agree
\* on every slot they share, the returned state is their union.
C11_UnconflictedPassThrough ==
  (call.fn = "groups" /\ out[2].status # "none")
    => /\ \A k \in UnconflictedSlots :
            /\ out[2].status = "ok"
            /\ k \in DOMAIN out[2].entry.state
            /\ out[2].entry.state[k] = InputUnion[k]
       /\ InputsAgree => (out[2].status = "ok" /\ out[2].entry.state = InputUnion)

\* The stored state groups the prev events of the call belong to.
GroupsOfEvents ==
  { EventGroup[e] : e \in call.events \cap DOMAIN EventGroup }
    \cap DOMAIN room_state.stategroupid_eventnumidrange

\* Every prev event of the call belongs to the one stored group g.
AllInGroup(g) ==
  /\ call.fn = "for_events"
  /\ call.events # {}
  /\ g \in DOMAIN room_state.stategroupid_eventnumidrange
  /\ \A e \in call.events : e \in DOMAIN EventGroup /\ EventGroup[e] = g

\* C12: when the prev events all belong to exactly one state group,
\* resolve_state_group_for_events returns that group's state map with
\* state_group equal to the group's ID, and allocates no state-group ID.
C12_SingleGroupReturnedDirectly ==
  [][\A g \in GroupIds :
        AllInGroup(g)
          => /\ out'[2].status = "ok"
             /\ out'[2].entry.state = get_statemap(room_state, g)
             /\ out'[2].entry.state_group = g
             /\ out'[2].entry.state_id = Group(g)
             /\ room_state' = room_state]_vars

\* C12 witness: two prev events of one stored group were resolved.
C12_Witness ==
  /\ \E g \in GroupIds : AllInGroup(g)
  /\ Cardinality(call.events) = 2
  /\ out[2].status = "ok"

\* C13: given no prev events, resolve_state_group_for_events returns an entry
\* with an empty state map and no state_group, prev_group or delta_ids, and
\* changes neither the stored tables nor the counter.
C13_EmptyInputEmptyState ==
  [][(call.fn = "for_events" /\ call.events = {})
        => /\ out'[2].status = "ok"
           /\ out'[2].entry.state = EmptyMap
           /\ out'[2].entry.state_group = None
           /\ out'[2].entry.prev_group = None
           /\ ~out'[2].entry.delta_ids.some
           /\ room_state' = room_state]_vars

\* C13 witness: the call without prev events has returned, with groups stored.
C13_Witness ==
  /\ call.fn = "for_events"
  /\ call.events = {}
  /\ out[2].status = "ok"
  /\ DOMAIN room_state.stategroupid_eventnumidrange # {}

\* A call of make_state_cache has returned.
CacheReturned == call.fn = "cache" /\ out[2].status = "ok"

\* The input groups whose state map equals the new state.
EqualGroups == { g \in call.groups : get_statemap(room_state, g) = call.new_state }

\* C14: when the new state equals the state map of an input group,
\* make_state_cache returns such a group's ID as state_group, with
\* state_id = Group(that ID) and without prev_group or delta_ids.
C14_EqualGroupBecomesStateGroup ==
  (CacheReturned /\ EqualGroups # {})
    => /\ out[2].entry.state_group \in EqualGroups
       /\ out[2].entry.state_id = Group(out[2].entry.state_group)
       /\ out[2].entry.state = call.new_state
       /\ out[2].entry.prev_group = None
       /\ ~out[2].entry.delta_ids.some

\* C14 witness: a non-empty new state that equals one of two input groups.
C14_Witness ==
  /\ CacheReturned
  /\ EqualGroups # {}
  /\ Cardinality(call.groups) = 2
  /\ call.groups # EqualGroups
  /\ call.new_state # EmptyMap

\* The slot/event pairs the new state shares with the state map of group g.
Overlap(g) == Pairs(call.new_state) \cap Pairs(get_statemap(room_state, g))

\* The slots on which the new state and the state map of group g differ.
DifferingSlots(g) ==
  LET old == get_statemap(room_state, g)
  IN  { k \in DOMAIN call.new_state \cup DOMAIN old :
          ~(k \in DOMAIN call.new_state /\ k \in DOMAIN old /\ call.new_state[k] = old[k]) }

\* C15: when the new state equals none of the input groups, prev_group is an
\* input group with the largest overlap with the new state, i.e. one for
\* which the fewest slots differ.
C15_PrevGroupLargestOverlap ==
  (CacheReturned /\ EqualGroups = {} /\ call.groups # {})
    => /\ out[2].entry.prev_group \in call.groups
       /\ \/ \A g \in call.groups :
               Cardinality(Overlap(g)) <= Cardinality(Overlap(out[2].entry.prev_group))
          \/ \A g \in call.groups :
               Cardinality(DifferingSlots(out[2].entry.prev_group))
                 <= Cardinality(DifferingSlots(g))

\* C16: delta_ids is the symmetric difference between the new state and the
\* state map of the chosen prev_group, collected into a state map.
C16_DeltaIsSymmetricDifference ==
  (CacheReturned /\ out[2].entry.prev_group # None)
    => /\ out[2].entry.delta_ids.some
       /\ out[2].entry.delta_ids.map =
            symmetric_difference(get_statemap(room_state, out[2].entry.prev_group),
                                 out[2].entry.state)

\* A state map with the entries of a delta written over it.
ApplyDelta(base, delta) ==
  [k \in DOMAIN base \cup DOMAIN delta |->
     IF k \in DOMAIN delta THEN delta[k] ELSE base[k]]

\* The entry returned names a prev_group and a delta.
HasPrevGroup == CacheReturned /\ out[2].entry.prev_group # None

C18_IdsStrictlyIncreasing ==
  /\ \A i, j \in 1 .. Len(issued) : i < j => issued[i] < issued[j]
  /\ \A t, u \in Threads : (t # u /\ got[t] # NoId) => got[t] # got[u]

\* C18 witness: both threads hold an ID.
C18_Witness ==
  /\ Len(issued) = 2
  /\ \A t \in Threads : got[t] # NoId

\* C19: after a restart new_state_group_id returns no ID issued before the
\* restart, and every ID it returns is greater than the ID of every stored
\* state group.
C19_NoReissueAfterRestart ==
  \A i \in 1 .. Len(issued) :
    /\ issued[i] \notin issued_before
    /\ \A g \in DOMAIN room_state.stategroupid_eventnumidrange : issued[i] > g

\* C20: in every event context computed, current_state_ids equals
\* prev_state_ids for a non-state event, and prev_state_ids with the event's
\* own slot set to its event_id for a state event.
C20_StateAfterIsStateBeforePlusEvent ==
  ctx.status = "ok"
    => ctx.context.current_state_ids =
         (IF ctx.pdu.state_key # NoKey
          THEN MapInsert(ctx.context.prev_state_ids,
                         <<ctx.pdu.kind, ctx.pdu.state_key>>, ctx.pdu.event_id)
          ELSE ctx.context.prev_state_ids)

\* The prev events of a call that have a stored state group, and the state
\* that group's range materializes.
EventsWithGroup(rs, event_ids) ==
  { id \in Range(event_ids) :
      id \in DOMAIN EventGroup /\ EventGroup[id] \in DOMAIN rs.stategroupid_eventnumidrange }
GroupState(rs, g) == statemap_from_numid_range(rs.stategroupid_eventnumidrange[g])

StoredBefore(rs, current) ==
  LET below == { g \in DOMAIN rs.stategroupid_eventnumidrange : g < current }
  IN  IF current \in DOMAIN rs.stategroupid_eventnumidrange /\ below # {}
      THEN Max(below) ELSE None

\* C29: prev_state_id returns normally with the ID of the state group stored
\* immediately before `current`, and None when `current` is not stored or is
\* the first stored group.
C29_PrevStateIdIsPredecessor ==
  rd.fn = "prev_state_id"
    => /\ rd.result.status = "ok"
       /\ rd.result.value = StoredBefore(room_state, rd.current)

\* The numeric IDs of a range that have a row in each of the three trees.
RowsOf(c) ==
  { n \in (DOMAIN c.types) \cap (DOMAIN c.keys) \cap (DOMAIN c.ids) :
      c.range[1] <= n /\ n <= c.range[2] }
\* The map the rows materialize, a later row replacing an earlier one.
RowMap(c) ==
  LET slots == { <<c.types[n], c.keys[n]>> : n \in RowsOf(c) }
  IN  [k \in slots |-> c.ids[Max({ n \in RowsOf(c) : <<c.types[n], c.keys[n]>> = k })]]

\* C30: statemap_from_numid_range returns exactly the map of the rows
\* min_numid <= n <= max_numid, every entry built of the event type, state key
\* and event ID stored under one and the same n.
C30_StatemapIsRowsOfRange ==
  rd.fn = "statemap_from_numid_range" => rd.result = RowMap(rd)

\* C28: when the process starts again, load_or_create succeeds and every key
\* of the tree reads as it was last written before the restart; the import of
\* the old database neither replaces nor brings back anything.
C28_StoreSurvivesRestart ==
  [][(disk.status = "down" /\ disk.starts > 0 /\ disk'.starts = disk.starts + 1)
       => (disk'.status = "up" /\ disk'.db = disk.db)]_vars

\* The delegated name of a send_request call: the well-known answer, or the
\* server name itself.
Delegated(r) == IF r.well_known.some THEN r.well_known.name ELSE r.destination

\* C22: when the delegated name has an explicit port, send_request connects
\* to exactly that host and port, whatever SRV records there are.
C22_ExplicitPortIsFinal ==
  (req.status = "sent" /\ has_port(Delegated(req)))
    => req.request.actual_destination = Delegated(req)

\* C23: when the delegated name has no port, send_request connects to the
\* first SRV target of _matrix._tcp.{delegated} if there is one and to
\* delegated:8448 otherwise, with and without well-known delegation.
C23_SrvThenDefaultPort ==
  (req.status = "sent" /\ ~has_port(Delegated(req)))
    => req.request.actual_destination =
         (IF srv_lookup(req.dns, Delegated(req)).some
          THEN srv_lookup(req.dns, Delegated(req)).name
          ELSE with_default_port(Delegated(req)))

\* C24: the destination field of the signed request JSON is the delegated
\* name.
C24_JsonDestinationIsDelegated ==
  req.status = "sent" => req.request.json_destination = Delegated(req)

\* C25: the Host header is set to the delegated name exactly when well-known
\* delegation occurred.
C25_HostSetOnDelegation ==
  req.status = "sent"
    => req.request.host =
         (IF req.well_known.some THEN [some |-> TRUE, name |-> req.well_known.name]
          ELSE [some |-> FALSE, name |-> NoName])

\* The keys of the tree that belong to (room, user, kind).
EntriesOf(tree, room, user, kind) ==
  { k \in DOMAIN tree :
      LET p == ad_prefix(room, user)
      IN  /\ Len(k) = Len(p) + CountBytes + 1 + Len(kind)
          /\ k = p \o SubSeq(k, Len(p) + 1, Len(p) + CountBytes) \o <<Sep>> \o kind }

RECURSIVE from_be_bytes(_)
from_be_bytes(b) ==
  IF b = << >> THEN 0 ELSE from_be_bytes(SubSeq(b, 1, Len(b) - 1)) * 256 + b[Len(b)]

\* The count in a key of (room, user).
CountOf(k, room, user) ==
  from_be_bytes(SubSeq(k, Len(ad_prefix(room, user)) + 1,
                       Len(ad_prefix(room, user)) + CountBytes))

\* C31: after any sequence of update calls the tree holds at most one entry
\* per (room, user, event type), that entry is the event of the most recent
\* update for the triple, a triple never updated has no entry, and the tree
\* holds nothing else.
C31_OneEntryPerTriple ==
  /\ \A room \in AdRooms, user \in AdUsers, kind \in AdKinds :
       LET E == EntriesOf(ad.tree, room, user, kind)
       IN  IF <<room, user, kind>> \in DOMAIN ad.latest
           THEN /\ Cardinality(E) = 1
                /\ \A k \in E : ad.tree[k] = ad.latest[<<room, user, kind>>]
           ELSE E = {}
  /\ \A k \in DOMAIN ad.tree :
       \E room \in AdRooms, user \in AdUsers, kind \in AdKinds :
         k \in EntriesOf(ad.tree, room, user, kind)

\* C31 witness: a triple was updated more than once, another triple has an
\* entry too, and a count in the keys holds the byte 0xff.
C31_Witness ==
  /\ ad.updates = MaxUpdates
  /\ Cardinality(DOMAIN ad.latest) = 2
  /\ ad.counter >= 255

\* What changes_since is to return: for every type with an entry of (room,
\* user) whose count is greater than `since`, the event of that entry.
ExpectedChanges(tree, room, user, since) ==
  LET newer(kind) == { k \in EntriesOf(tree, room, user, kind) :
                         CountOf(k, room, user) > since }
      kinds == { kind \in AdKinds : newer(kind) # {} }
  IN  [kind \in kinds |-> tree[CHOOSE k \in newer(kind) : TRUE]]

\* C32: changes_since returns exactly the entries of (room, user) whose count
\* is greater than `since`, one per event type.
C32_ChangesSinceIsExact ==
  ad.read.status # "none"
    => /\ ad.read.status = "ok"
       /\ ad.read.userdata =
            ExpectedChanges(ad.tree, ad.read.room, ad.read.user, ad.read.since)

\* The same for every `since` below u64::MAX.
ChangesSinceExactBelowMax ==
  (ad.read.status # "none" /\ ad.read.since < U64Max)
    => /\ ad.read.status = "ok"
       /\ ad.read.userdata =
            ExpectedChanges(ad.tree, ad.read.room, ad.read.user, ad.read.since)

\* Some entry was skipped, some returned, in a read below u64::MAX.
ChangesSinceReadSome ==
  /\ ad.read.status = "ok" /\ ad.read.since < U64Max
  /\ ad.read.userdata # EmptyMap
  /\ \E kind \in AdKinds :
       /\ kind \notin DOMAIN ad.read.userdata
       /\ EntriesOf(ad.tree, ad.read.room, ad.read.user, kind) # {}

\* C33: leave_room_route fails with BadState and appends no event whenever
\* the sender is not a member of the room: has no member event, has left or
\* is banned.
C33_LeaveNeedsMembership ==
  (ms.route = "leave" /\ ms.before \in {"none", "leave", "ban"})
    => ms.result = "BadState" /\ ~ms.appended

\* C34: unban_user_route fails with BadState and appends no event whenever
\* the target's membership is not ban.
C34_UnbanNeedsBan ==
  (ms.route = "unban" /\ ms.before # "ban")
    => ms.result = "BadState" /\ ~ms.appended

\* C39: the three read routes answer Forbidden and disclose nothing to a user
\* who is not joined to the room.
C39_ReadersAreJoined ==
  (ms.route \in {"messages", "members", "joined_members"} /\ ms.before # "join")
    => ms.result = "Forbidden" /\ ms.disclosed = {}

\* C39 witness: a user who left (or was banned from) a room that has a joined
\* member asked for room data and was refused.
C39_Witness ==
  /\ ms.route \in {"messages", "members", "joined_members"}
  /\ ms.before \in {"leave", "ban"}
  /\ ms.result = "Forbidden"
  /\ room_members(db, ms.room) # {}

\* The sender of the event has annotated the event it relates to.
AlreadyAnnotated(e) ==
  /\ e.pdu.relates_to \in RelatedEvents
  /\ <<e.pdu.relates_to, e.pdu.sender>> \in e.eventiduser_pdu

\* C35: create_new_client_event answers Conflict if and only if the sender
\* has already annotated the related event; an event with no m.relates_to, or
\* with one that no annotation of the sender is stored for, gets its event
\* context.
C35_ConflictIffAnnotated ==
  (ev.status # "none" /\ ev.pdu.relates_to # BadRelation)
    => IF AlreadyAnnotated(ev) THEN ev.status = "Conflict" ELSE ev.status = "ok"

\* C36: get_missing_events_route returns for every request and every stored
\* event graph, and the response holds at most `limit` events.
C36_TerminatesWithinLimit ==
  /\ <>(gm.pc = "done")
  /\ [](gm.pc = "done" => Len(gm.events) <= gm.limit)

\* C36 witness: the handler has returned `limit` events, the largest limit,
\* from a graph in which two events name each other in prev_events.
C36_Witness ==
  /\ gm.pc = "done"
  /\ gm.limit = MaxLimit
  /\ Len(gm.events) = MaxLimit
  /\ \E a \in DOMAIN gm.graph, b \in DOMAIN gm.graph :
       /\ a # b
       /\ a \in Range(gm.graph[b])
       /\ b \in Range(gm.graph[a])

\* The stored events outside earliest_events that a path of such events leads
\* to from latest_events along prev_events.
RECURSIVE ReachableAvoiding(_, _)
ReachableAvoiding(g, R) ==
  LET ok(id) == id \in DOMAIN g.graph /\ id \notin g.earliest_events
      step == R \cup { id \in UNION { Range(g.graph[x]) : x \in R } : ok(id) }
  IN  IF step = R THEN R ELSE ReachableAvoiding(g, step)

Reachable(g) ==
  ReachableAvoiding(g, { id \in Range(g.latest_events) :
                           id \in DOMAIN g.graph /\ id \notin g.earliest_events })

\* C37: every event in the response is stored, is not in earliest_events and
\* is reached from latest_events along prev_events by a path that holds no
\* event of earliest_events.
C37_NothingThroughEarliest ==
  \A n \in 1 .. Len(gm.events) :
    /\ gm.events[n] \in DOMAIN gm.graph
    /\ gm.events[n] \notin gm.earliest_events
    /\ gm.events[n] \in Reachable(gm)

\* C37 witness: the handler met a stored event of earliest_events, whose
\* parent is stored, and has returned other events.
C37_Witness ==
  /\ gm.pc = "done"
  /\ gm.events # << >>
  /\ \E n \in 1 .. gm.i :
       /\ gm.queued_events[n] \in gm.earliest_events
       /\ gm.queued_events[n] \in DOMAIN gm.graph
       /\ \E p \in Range(gm.graph[gm.queued_events[n]]) :
            p \in DOMAIN gm.graph /\ p \notin gm.earliest_events

\* C38: no event is in the response more than once.
C38_EachEventOnce ==
  \A n \in 1 .. Len(gm.events), m \in 1 .. Len(gm.events) :
    gm.events[n] = gm.events[m] => n = m

\* C40: a write through one handle of the room store leaves what every other
\* handle shows as it was.
C40_HandlesHaveOwnTrees ==
  [][(tr.status = "open" /\ tr'.writes # tr.writes)
       => \A other \in RoomHandles \ {tr'.handle} : view(tr', other) = view(tr, other)]_vars

====
